---------------------------- MODULE Spec2Model ----------------------------
(***************************************************************************)
(* SmokeSignal: the floor-plan controller's calibration, validation,       *)
(* export gating and auto-addressing, modelled from                        *)
(* src/src/controllers/floor_plan_controller.py, src/src/models/           *)
(* smoke_detector.py and src/src/views/detector_dialog.py.                 *)
(*                                                                         *)
(* Conventions                                                             *)
(*  - A Python str is a sequence of one-character strings (<<"0","1">> is  *)
(*    "01"), so strip(), int() and the f-string paddings are computed.     *)
(*  - An optional value (None or v) is <<>> or <<v>>.                      *)
(*  - A real number is kept exactly as sign and square: the record         *)
(*    [sgn, n2, d2] is sgn * sqrt(n2/d2) with n2/d2 in lowest terms, which *)
(*    holds every value D / hypot(dx,dy) of integer pixel offsets. IEEE    *)
(*    rounding, inf and nan are not modelled.                              *)
(*  - Lengths entered in dialogs are in tenths of a meter (6.2 m is 62).   *)
(***************************************************************************)
EXTENDS Integers, Sequences, FiniteSets, TLC

(***************************************************************************)
(* Sequences                                                               *)
(***************************************************************************)
\* the list of the items f[1], ..., f[Len(f)]
List(f) == SubSeq(f, 1, Len(f))

Range(s) == { s[i] : i \in DOMAIN s }

RemoveAt(s, i) == SubSeq(s, 1, i - 1) \o SubSeq(s, i + 1, Len(s))

(***************************************************************************)
(* Python str: strip(), int(), str(int), f"{n:0Wd}"                        *)
(***************************************************************************)
Digits == <<"0", "1", "2", "3", "4", "5", "6", "7", "8", "9">>

IsDigit(c) == \E i \in DOMAIN Digits : Digits[i] = c

DigitVal(c) == (CHOOSE i \in DOMAIN Digits : Digits[i] = c) - 1

IsSpace(c) == c = " "

RECURSIVE LStrip(_)
LStrip(s) == IF s # <<>> /\ IsSpace(Head(s)) THEN LStrip(Tail(s)) ELSE s

RECURSIVE RStrip(_)
RStrip(s) ==
  IF s # <<>> /\ IsSpace(s[Len(s)]) THEN RStrip(SubSeq(s, 1, Len(s) - 1)) ELSE s

\* str.strip()
Strip(s) == RStrip(LStrip(s))

\* t without a leading sign
Unsigned(t) == IF t # <<>> /\ Head(t) \in {"+", "-"} THEN Tail(t) ELSE t

\* the digits of an int literal once blanks and a sign are taken off
IntBody(s) == Unsigned(Strip(s))

\* one digit at least and digits only
AllDigits(b) == b # <<>> /\ \A i \in DOMAIN b : IsDigit(b[i])

\* int(s) does not raise ValueError
IntOk(s) == AllDigits(IntBody(s))

RECURSIVE DigitsVal(_)
DigitsVal(ds) ==
  IF ds = <<>> THEN 0
  ELSE 10 * DigitsVal(SubSeq(ds, 1, Len(ds) - 1)) + DigitVal(ds[Len(ds)])

\* int(s), for IntOk(s)
IntVal(s) ==
  IF Head(Strip(s)) = "-" THEN 0 - DigitsVal(IntBody(s)) ELSE DigitsVal(IntBody(s))

RECURSIVE NatStr(_)
NatStr(n) == IF n < 10 THEN <<Digits[n + 1]>> ELSE NatStr(n \div 10) \o <<Digits[(n % 10) + 1]>>

\* str(n)
IntStr(n) == IF n < 0 THEN <<"-">> \o NatStr(0 - n) ELSE NatStr(n)

RECURSIVE ZeroFill(_, _)
ZeroFill(ds, width) == IF Len(ds) >= width THEN ds ELSE ZeroFill(<<"0">> \o ds, width)

\* a format without padding: str(n)
FormatPlain(n, width) == IntStr(n)

\* f"{n:0{width}d}": the sign counts towards the width
FormatZero(n, width) ==
  IF n < 0 THEN <<"-">> \o ZeroFill(NatStr(0 - n), width - 1)
  ELSE ZeroFill(NatStr(n), width)

(***************************************************************************)
(* Real numbers: sign and square in lowest terms                           *)
(***************************************************************************)
RECURSIVE GCD(_, _)
GCD(a, b) == IF b = 0 THEN a ELSE GCD(b, a % b)

\* sgn * sqrt(n2/d2), n2 >= 0, d2 > 0, reduced
Real(sgn, n2, d2) ==
  IF n2 = 0 \/ sgn = 0 THEN [sgn |-> 0, n2 |-> 0, d2 |-> 1]
  ELSE [sgn |-> sgn, n2 |-> n2 \div GCD(n2, d2), d2 |-> d2 \div GCD(n2, d2)]

\* the rational num/den, den > 0
Ratio(num, den) ==
  LET a == IF num < 0 THEN 0 - num ELSE num
      g == GCD(a, den)
  IN  Real(IF num < 0 THEN 0 - 1 ELSE IF num = 0 THEN 0 ELSE 1,
           (a \div g) * (a \div g), (den \div g) * (den \div g))

\* math.hypot(dx, dy)
hypot(dx, dy) == Real(1, dx * dx + dy * dy, 1)

\* a / b for b # 0
RealDiv(a, b) == Real(a.sgn * b.sgn, a.n2 * b.d2, a.d2 * b.n2)

\* a * b
RealMul(a, b) == Real(a.sgn * b.sgn, a.n2 * b.n2, a.d2 * b.d2)

\* a < b
RealLess(a, b) ==
  CASE a.sgn < 0 /\ b.sgn >= 0 -> TRUE
    [] a.sgn >= 0 /\ b.sgn < 0 -> FALSE
    [] a.sgn >= 0 /\ b.sgn >= 0 -> a.n2 * b.d2 < b.n2 * a.d2
    [] OTHER -> b.n2 * a.d2 < a.n2 * b.d2

RealPositive(a) == a.sgn > 0

(***************************************************************************)
(* Bounds of the model                                                     *)
(***************************************************************************)
\* devices in the registry at one time
MaxDevices == 2

\* report documents built in one run
MaxBuilds == 1

\* the largest address the cursor hands out
MaxAddress == 3

\* the most connections held
MaxLines == 1

\* the most restore timers of highlight_detector pending at one time
MaxTimers == 2

(***************************************************************************)
(* State                                                                   *)
(***************************************************************************)
VARIABLES
  detectors,           \* self.detectors: the ordered registry, a sequence of device records
  lines,               \* self.lines: connections, each with its two device ids
  line_start,          \* self._line_start: None or the pending start device
  scale,               \* self.scale: a number (meters per pixel) or a text
  calibrating,         \* self._calibrating
  calibration_points,  \* self._calibration_points
  modal,               \* the modal box a handler is waiting in, "none" if none
  show_arrows,         \* self.show_arrows
  auto_arrows,         \* self._auto_arrows
  auto_address_enabled,\* self._auto_address_enabled
  auto_bus_raw,        \* self._auto_bus_raw
  auto_group_raw,      \* self._auto_group_raw
  next_address,        \* self._next_address
  floorplan,           \* floorplan_path, pdf_page and floor_plan_item of the loaded plan
  export_arrows,       \* include_arrows of the export_to_pdf call waiting in its prompt
  docs_built,          \* number of report documents doc.build has produced
  add_mode,            \* view.add_mode
  measure_mode,        \* self._measuring and view.measure_mode, set together
  measure_points,      \* self._measure_points
  restore_timers       \* the _restore closures of highlight_detector not yet fired

vars == <<detectors, lines, line_start, scale, calibrating, calibration_points,
          modal, show_arrows, auto_arrows, auto_address_enabled, auto_bus_raw,
          auto_group_raw, next_address, floorplan, export_arrows, docs_built,
          add_mode, measure_mode, measure_points, restore_timers>>

cursor_vars == <<auto_address_enabled, auto_bus_raw, auto_group_raw, next_address>>

calibration_vars == <<calibrating, calibration_points>>

view_vars == <<add_mode, measure_mode, measure_points>>

(***************************************************************************)
(* self.scale                                                              *)
(***************************************************************************)
NumScale(r) == [num |-> TRUE, val |-> r, text |-> <<>>]

TextScale(t) == [num |-> FALSE, val |-> Real(0, 0, 1), text |-> t]

\* any number, whatever its sign
ScaleIsNumber(sc) == sc.num

\* isinstance(self.scale, (int, float)) and float(self.scale) > 0
ScaleResolved(sc) == sc.num /\ RealPositive(sc.val)

(***************************************************************************)
(* Devices (models/smoke_detector.py)                                      *)
(***************************************************************************)
\* SmokeDetector.__init__: self.range = 6.2
DefaultRange == 62

\* BaseDevice.__init__ / SmokeDetector / IOBox / CallPoint: only a SmokeDetector
\* has a range and a paired_sn attribute (<<>> is "no attribute"); the
\* background starts red; the labels start empty
NewDevice(id, pos, device_type) ==
  [ id            |-> id,
    device_type   |-> IF device_type \in {"IO", "CallPoint"} THEN device_type ELSE "Detector",
    x             |-> pos[1],
    y             |-> pos[2],
    bus_number    |-> <<>>,
    group         |-> <<>>,
    address       |-> <<>>,
    serial_number |-> <<>>,
    range         |-> IF device_type \in {"IO", "CallPoint"} THEN <<>> ELSE <<DefaultRange>>,
    paired_sn     |-> IF device_type \in {"IO", "CallPoint"} THEN <<>> ELSE << <<>> >>,
    range_circle  |-> <<>>,
    brush         |-> "red",
    address_label |-> <<>> ]

\* a label built whether or not a field is empty
FormatAddressUnchecked(bus, group, addr) ==
  IF IntOk(bus) /\ IntOk(group) /\ IntOk(addr)
  THEN FormatZero(IntVal(bus), 2) \o <<"-">> \o IntStr(IntVal(group))
         \o FormatZero(IntVal(addr), 3)
  ELSE bus \o <<"-">> \o group \o addr

\* the label of the stripped bus, group and address: f"{bus_i:02d}-{group_i}{addr_i:03d}"
\* when all three are ints, f"{bus}-{group}{addr}" otherwise, "" when one is empty
FormatAddress(bus, group, addr) ==
  IF bus # <<>> /\ group # <<>> /\ addr # <<>>
  THEN IF IntOk(bus) /\ IntOk(group) /\ IntOk(addr)
       THEN FormatZero(IntVal(bus), 2) \o <<"-">> \o IntStr(IntVal(group))
              \o FormatZero(IntVal(addr), 3)
       ELSE bus \o <<"-">> \o group \o addr
  ELSE <<>>

\* the text both label methods build from bus, group and address
AddressText(d) == FormatAddress(Strip(d.bus_number), Strip(d.group), Strip(d.address))

\* BaseDevice.get_full_address_label
get_full_address_label(d) == AddressText(d)

\* BaseDevice.update_address_label: the address label's plain text
update_address_label(d) == [d EXCEPT !.address_label = AddressText(d)]

\* SmokeDetector.set_range(range_meters, pixels_per_meter); ppm is None (<<>>) or <<r>>
set_range(d, range_tenths, ppm) ==
  IF ppm = <<>>
  THEN [d EXCEPT !.range = <<range_tenths>>, !.range_circle = <<>>]
  ELSE update_address_label(
         [d EXCEPT !.range = <<range_tenths>>,
                   !.range_circle = <<RealMul(Ratio(range_tenths, 10), ppm[1])>>])

\* FloorPlanController.set_detector_range, for a device that has set_range
set_detector_range(d, range_tenths, sc) ==
  IF ScaleResolved(sc)
  THEN set_range(d, range_tenths, <<RealDiv(Real(1, 1, 1), sc.val)>>)
  ELSE set_range(d, range_tenths, <<>>)

\* the loops "for d in list(self.detectors): set_detector_range(d, getattr(d, 'range', 0))"
\* of _on_calibration_point and set_scale: a device without set_range raises
\* AttributeError inside, which the loop swallows, leaving the device as it is
ReapplyRanges(ds, sc) ==
  List([ i \in DOMAIN ds |->
           IF ds[i].device_type = "Detector"
           THEN set_detector_range(ds[i], ds[i].range[1], sc)
           ELSE ds[i] ])

(***************************************************************************)
(* update_detector_colors and update_address_arrows                        *)
(***************************************************************************)
\* counts[sn] of update_detector_colors: the serial is taken as stored, not stripped
SerialCount(ds, sn) == Cardinality({ i \in DOMAIN ds : ds[i].serial_number = sn })

\* brushes from the counts alone, an empty serial counted like any other
ColoursByCountOnly(ds) ==
  List([ i \in DOMAIN ds |->
           [ ds[i] EXCEPT !.brush =
               IF SerialCount(ds, ds[i].serial_number) = 1 THEN "green" ELSE "orange" ] ])

\* the brushes update_detector_colors sets: green for a serial that is non-empty
\* and counted once, orange otherwise
update_detector_colors(ds) ==
  List([ i \in DOMAIN ds |->
           [ ds[i] EXCEPT !.brush =
               IF ds[i].serial_number # <<>> /\ SerialCount(ds, ds[i].serial_number) = 1
               THEN "green" ELSE "orange" ] ])

\* characters in code-point order, for str comparison
CharOrder == <<" ", "+", "-", ".", "0", "1", "2", "3", "4", "5", "6", "7", "8", "9",
               ":", "A", "B", "U", "a", "b", "c", "d", "e", "g", "i", "n", "s", "x">>

CharRank(c) == CHOOSE i \in DOMAIN CharOrder : CharOrder[i] = c

RECURSIVE StrLess(_, _)
\* s < t for Python str
StrLess(s, t) ==
  IF t = <<>> THEN FALSE
  ELSE IF s = <<>> THEN TRUE
  ELSE IF Head(s) = Head(t) THEN StrLess(Tail(s), Tail(t))
  ELSE CharRank(Head(s)) < CharRank(Head(t))

\* "try: int(raw) except: raw" of update_address_arrows: an int never equals a str
FieldKey(raw) ==
  IF IntOk(raw) THEN [int |-> TRUE, i |-> IntVal(raw), s |-> <<>>]
  ELSE [int |-> FALSE, i |-> 0, s |-> raw]

\* the device takes part in the arrows: bus, group and address all non-blank
HasFullAddress(d) ==
  Strip(d.bus_number) # <<>> /\ Strip(d.group) # <<>> /\ Strip(d.address) # <<>>

\* (bus_key, group_key)
GroupKey(d) == <<FieldKey(Strip(d.bus_number)), FieldKey(Strip(d.group))>>

\* addr_val: int(addr), else the text. The addresses of the model hold no ".", "e",
\* "inf" or "nan", so float(addr) raises whenever int(addr) does.
AddrVal(d) == FieldKey(Strip(d.address))

\* a key under which no address comes before another
SortKeyUnordered(a, b) == FALSE

\* sorted()'s key (float(v) if numeric else inf, str(v)), compared as tuples
SortKeyLess(a, b) ==
  CASE a.int /\ b.int -> a.i < b.i
    [] a.int /\ ~b.int -> TRUE
    [] ~a.int /\ b.int -> FALSE
    [] OTHER -> StrLess(a.s, b.s)

RECURSIVE InsertSorted(_, _, _)
\* idx put into the sorted index list after every entry that is not greater (stable)
InsertSorted(ds, sorted, idx) ==
  IF sorted = <<>> THEN <<idx>>
  ELSE IF SortKeyLess(AddrVal(ds[idx]), AddrVal(ds[Head(sorted)]))
       THEN <<idx>> \o sorted
       ELSE <<Head(sorted)>> \o InsertSorted(ds, Tail(sorted), idx)

RECURSIVE SortByAddress(_, _)
\* sorted(items, key=...) of a list of registry indices
SortByAddress(ds, idxs) ==
  IF idxs = <<>> THEN <<>>
  ELSE InsertSorted(ds, SortByAddress(ds, SubSeq(idxs, 1, Len(idxs) - 1)), idxs[Len(idxs)])

RECURSIVE GroupKeys(_, _)
\* the keys of the groups dict in insertion order, scanning from index i
GroupKeys(ds, i) ==
  IF i > Len(ds) THEN <<>>
  ELSE IF HasFullAddress(ds[i])
          /\ ~\E j \in 1..(i - 1) : HasFullAddress(ds[j]) /\ GroupKey(ds[j]) = GroupKey(ds[i])
       THEN <<GroupKey(ds[i])>> \o GroupKeys(ds, i + 1)
       ELSE GroupKeys(ds, i + 1)

RECURSIVE GroupMembers(_, _, _)
\* groups[key]: the registry indices of the group, in registry order
GroupMembers(ds, key, i) ==
  IF i > Len(ds) THEN <<>>
  ELSE (IF HasFullAddress(ds[i]) /\ GroupKey(ds[i]) = key THEN <<i>> ELSE <<>>)
         \o GroupMembers(ds, key, i + 1)

RECURSIVE ChainArrows(_, _, _)
\* one arrow from each device of the sorted group to the next, none between two
\* devices at the same position
ChainArrows(ds, sorted, show) ==
  IF Len(sorted) < 2 THEN <<>>
  ELSE LET s == ds[sorted[1]]
           e == ds[sorted[2]]
       IN  (IF s.x = e.x /\ s.y = e.y THEN <<>>
            ELSE << [start |-> s.id, end |-> e.id, sx |-> s.x, sy |-> s.y,
                     ex |-> e.x, ey |-> e.y, visible |-> show] >>)
             \o ChainArrows(ds, Tail(sorted), show)

RECURSIVE ArrowsOfGroups(_, _, _)
ArrowsOfGroups(ds, keys, show) ==
  IF keys = <<>> THEN <<>>
  ELSE ChainArrows(ds, SortByAddress(ds, GroupMembers(ds, Head(keys), 1)), show)
         \o ArrowsOfGroups(ds, Tail(keys), show)

\* update_address_arrows followed by its update_arrow_visibility: the new
\* self._auto_arrows
update_address_arrows(ds, show) == ArrowsOfGroups(ds, GroupKeys(ds, 1), show)

\* update_arrow_visibility
update_arrow_visibility(arrows, show) ==
  List([ i \in DOMAIN arrows |-> [arrows[i] EXCEPT !.visible = show] ])

(***************************************************************************)
(* validate_project                                                        *)
(***************************************************************************)
\* label or f"@{x:.0f},{y:.0f}"
LabelOrPos(label, d) ==
  IF label # <<>>
  THEN [text |-> label, at |-> FALSE, x |-> 0, y |-> 0]
  ELSE [text |-> <<>>, at |-> TRUE, x |-> d.x, y |-> d.y]

\* how an error message names a device: its full address label, or "@x,y"
NameByLabel(d) == LabelOrPos(get_full_address_label(d), d)

\* f"@{x:.0f},{y:.0f}"
NameByPos(d) == [text |-> <<>>, at |-> TRUE, x |-> d.x, y |-> d.y]

NoDistance == Real(0, 0, 1)

ErrorRec(kind, count, key, names, meters) ==
  [kind |-> kind, count |-> count, key |-> key, names |-> names, meters |-> meters]

\* f"{len(missing_serial)} detector(s) missing serial number(s)." if any is missing
MissingError(missing) ==
  IF missing # {}
  THEN <<ErrorRec("missing_serial", Cardinality(missing), <<>>, <<>>, NoDistance)>>
  ELSE <<>>

\* "Missing serial numbers": one message with the number of devices whose
\* stripped serial is empty
MissingSerialErrors(ds) ==
  MissingError({ i \in DOMAIN ds : Strip(ds[i].serial_number) = <<>> })

RECURSIVE NamesOf(_, _, _, _)
\* names[i] for the devices from index i on whose key is `key`, in registry order
NamesOf(keys, names, key, i) ==
  IF i > Len(keys) THEN <<>>
  ELSE (IF keys[i] = key THEN <<names[i]>> ELSE <<>>) \o NamesOf(keys, names, key, i + 1)

\* the message for a key and the devices that carry it, if more than one does
DuplicateError(kind, key, group) ==
  IF Len(group) > 1 THEN <<ErrorRec(kind, Len(group), key, group, NoDistance)>> ELSE <<>>

RECURSIVE DuplicateErrors(_, _, _, _)
\* one message for each non-empty key carried by more than one device, in the
\* order the keys first appear (a dict keeps insertion order); keys[i] and
\* names[i] are the key and the name of the i-th device
DuplicateErrors(kind, keys, names, i) ==
  IF i > Len(keys) THEN <<>>
  ELSE (IF keys[i] # <<>> /\ ~\E j \in 1..(i - 1) : keys[j] = keys[i]
        THEN DuplicateError(kind, keys[i], NamesOf(keys, names, keys[i], 1))
        ELSE <<>>)
         \o DuplicateErrors(kind, keys, names, i + 1)

\* duplicate serials grouped by the serial as stored
DuplicateSerialErrorsUnstripped(ds) ==
  DuplicateErrors("duplicate_serial",
                  List([i \in DOMAIN ds |-> ds[i].serial_number]),
                  List([i \in DOMAIN ds |-> NameByLabel(ds[i])]), 1)

\* "Duplicate serial numbers": grouped by the stripped serial
DuplicateSerialErrors(ds) ==
  DuplicateErrors("duplicate_serial",
                  List([i \in DOMAIN ds |-> Strip(ds[i].serial_number)]),
                  List([i \in DOMAIN ds |-> NameByLabel(ds[i])]), 1)

\* duplicate addresses grouped by the fields as typed
DuplicateAddressErrorsAsTyped(ds) ==
  DuplicateErrors("duplicate_address",
                  List([i \in DOMAIN ds |-> IF get_full_address_label(ds[i]) = <<>> THEN <<>>
                                        ELSE ds[i].bus_number \o <<"-">> \o ds[i].group \o ds[i].address]),
                  List([i \in DOMAIN ds |-> NameByPos(ds[i])]), 1)

\* "Duplicate address labels": grouped by the full address label
DuplicateAddressErrors(ds) ==
  DuplicateErrors("duplicate_address",
                  List([i \in DOMAIN ds |-> get_full_address_label(ds[i])]),
                  List([i \in DOMAIN ds |-> NameByPos(ds[i])]), 1)

\* the spacing threshold 0.5 of "if meters < 0.5"
MinSpacing == Ratio(1, 2)

\* meters = math.hypot(dx, dy) * float(self.scale)
MetersBetween(a, b, sc) == RealMul(hypot(a.x - b.x, a.y - b.y), sc.val)

\* a test that also fires at the threshold
TooCloseInclusive(meters) == ~RealLess(MinSpacing, meters)

\* "if meters < 0.5"
TooClose(meters) == RealLess(meters, MinSpacing)

\* the message for the pair a, b at this distance, if it is too close
SpacingError(a, b, meters) ==
  IF TooClose(meters)
  THEN <<ErrorRec("too_close", 2, <<>>, <<NameByLabel(a), NameByLabel(b)>>, meters)>>
  ELSE <<>>

RECURSIVE SpacingErrors(_, _, _, _)
\* the nested loops over i < j
SpacingErrors(ds, sc, i, j) ==
  IF i > Len(ds) THEN <<>>
  ELSE IF j > Len(ds) THEN SpacingErrors(ds, sc, i + 1, i + 2)
  ELSE SpacingError(ds[i], ds[j], MetersBetween(ds[i], ds[j], sc))
         \o SpacingErrors(ds, sc, i, j + 1)

\* validate_project: (errors, warnings)
validate_project(ds, sc) ==
  [ errors   |-> MissingSerialErrors(ds) \o DuplicateSerialErrors(ds)
                   \o DuplicateAddressErrors(ds)
                   \o (IF ScaleResolved(sc) THEN SpacingErrors(ds, sc, 1, 2) ELSE <<>>),
    warnings |-> IF ScaleResolved(sc) THEN <<>> ELSE <<"scale_not_numeric">> ]

(***************************************************************************)
(* set_scale                                                               *)
(***************************************************************************)
\* float(text) of a plain decimal numeral: sign, digits, at most one point.
\* Exponents, "inf" and "nan" are not in the texts of the model.
FloatBody(s) ==
  LET t == Strip(s)
  IN  IF t # <<>> /\ Head(t) \in {"+", "-"} THEN Tail(t) ELSE t

PointsIn(s) == { i \in DOMAIN s : s[i] = "." }

\* float(s) does not raise ValueError
FloatOk(s) ==
  LET b == FloatBody(s)
  IN  /\ \A i \in DOMAIN b : IsDigit(b[i]) \/ b[i] = "."
      /\ Cardinality(PointsIn(b)) <= 1
      /\ \E i \in DOMAIN b : IsDigit(b[i])

RECURSIVE Pow10(_)
Pow10(k) == IF k = 0 THEN 1 ELSE 10 * Pow10(k - 1)

\* float(s), for FloatOk(s)
FloatVal(s) ==
  LET b      == FloatBody(s)
      dot    == IF PointsIn(b) = {} THEN Len(b) + 1 ELSE CHOOSE i \in PointsIn(b) : TRUE
      digits == SubSeq(b, 1, dot - 1) \o SubSeq(b, dot + 1, Len(b))
      mag    == DigitsVal(digits)
      frac   == Len(b) - dot
  IN  Ratio(IF Head(Strip(s)) = "-" THEN 0 - mag ELSE mag,
            Pow10(IF frac < 0 THEN 0 ELSE frac))

\* no plan loaded: floorplan_path, pdf_page and floor_plan_item are all unset
NoPlan == [item |-> FALSE, is_pdf |-> FALSE, pdf_page |-> <<>>,
           rect_w |-> 0, rect_h |-> 0, pixel_width |-> 0]

\* PAPER_POINTS and PAPER_DIM_MM of get_pdf_page_physical_size, in dict order
PaperSizes ==
  << [name |-> "A0", pw |-> 2384, ph |-> 3370, mm_w |-> 841, mm_h |-> 1189],
     [name |-> "A1", pw |-> 1684, ph |-> 2384, mm_w |-> 594, mm_h |-> 841],
     [name |-> "A2", pw |-> 1191, ph |-> 1684, mm_w |-> 420, mm_h |-> 594],
     [name |-> "A3", pw |-> 842,  ph |-> 1191, mm_w |-> 297, mm_h |-> 420],
     [name |-> "A4", pw |-> 595,  ph |-> 842,  mm_w |-> 210, mm_h |-> 297],
     [name |-> "A5", pw |-> 420,  ph |-> 595,  mm_w |-> 148, mm_h |-> 210] >>

Abs(n) == IF n < 0 THEN 0 - n ELSE n

\* the page rect matches the paper in either orientation, within 5 points
PaperMatches(p, w, h) ==
  \/ Abs(w - p.pw) < 5 /\ Abs(h - p.ph) < 5
  \/ Abs(w - p.ph) < 5 /\ Abs(h - p.pw) < 5

\* get_pdf_page_physical_size: <<>> for (None, None, None), else the first
\* matching paper's <<mm_w, mm_h>> (millimeters; the code divides by 1000.0)
get_pdf_page_physical_size(w, h) ==
  LET hits == { i \in DOMAIN PaperSizes : PaperMatches(PaperSizes[i], w, h) }
  IN  IF hits = {} THEN <<>>
      ELSE LET first == CHOOSE i \in hits : \A j \in hits : i <= j
           IN  <<PaperSizes[first].mm_w, PaperSizes[first].mm_h>>

\* text.startswith("1:")
IsRatioText(t) == Len(t) >= 2 /\ t[1] = "1" /\ t[2] = ":"

\* the auto-calibration branch is entered: a PDF plan with its page and its item
CanAutoCalibrate(fp) == fp.is_pdf /\ fp.pdf_page # <<>> /\ fp.item

\* every str kept as text, none read as a number
ScaleFromTextUnparsed(value, fp) == TextScale(Strip(value))

\* set_scale(value) for a str: the new self.scale
ScaleFromText(value, fp) ==
  LET text == Strip(value)
  IN  IF IsRatioText(text)
      THEN LET rest == SubSeq(text, 3, Len(text))
           IN  IF ~FloatOk(rest) THEN TextScale(text)
               ELSE IF ~CanAutoCalibrate(fp) THEN TextScale(text)
               ELSE LET size == get_pdf_page_physical_size(fp.rect_w, fp.rect_h)
                    IN  IF size = <<>> THEN TextScale(text)
                        ELSE IF fp.pixel_width <= 0 THEN TextScale(text)
                        ELSE NumScale(RealDiv(RealMul(Ratio(size[1], 1000), FloatVal(rest)),
                                              Ratio(fp.pixel_width, 1)))
      ELSE IF FloatOk(text) THEN NumScale(FloatVal(text)) ELSE TextScale(text)

\* set_scale(value) for a str re-applies the ranges exactly when it auto-calibrated
AutoCalibrates(value, fp) ==
  LET text == Strip(value)
  IN  IsRatioText(text) /\ ScaleFromText(value, fp).num

\* set_scale: the new scale and registry. arg is NumScale(r) for a number and
\* TextScale(s) for a str
set_scale(arg, ds, fp) ==
  IF arg.num
  THEN [scale |-> NumScale(arg.val), detectors |-> ds]
  ELSE [scale     |-> ScaleFromText(arg.text, fp),
        detectors |-> IF AutoCalibrates(arg.text, fp)
                      THEN ReapplyRanges(ds, ScaleFromText(arg.text, fp))
                      ELSE ds]

(***************************************************************************)
(* The auto-address cursor                                                 *)
(***************************************************************************)
\* the comparison of start_auto_address for one device with non-blank dbus and
\* dgroup: "int(dbus) == int(bus) and int(dgroup) == int(group)", and the string
\* comparison of the except branch when an int() raised
CursorMatches(dbus, dgroup, bus, group) ==
  IF ~(IntOk(dbus) /\ IntOk(bus)) THEN dbus = bus /\ dgroup = group
  ELSE IF IntVal(dbus) # IntVal(bus) THEN FALSE
  ELSE IF ~(IntOk(dgroup) /\ IntOk(group)) THEN dbus = bus /\ dgroup = group
  ELSE IntVal(dgroup) = IntVal(group)

RECURSIVE ScanMaxAddress(_, _, _, _, _)
\* the loop of start_auto_address from device i on, max_addr being the maximum so far
ScanMaxAddress(ds, i, bus, group, max_addr) ==
  IF i > Len(ds) THEN max_addr
  ELSE LET dbus   == Strip(ds[i].bus_number)
           dgroup == Strip(ds[i].group)
           a      == ds[i].address
           hit    == /\ dbus # <<>>
                     /\ dgroup # <<>>
                     /\ CursorMatches(dbus, dgroup, bus, group)
                     /\ IntOk(a)
                     /\ IntVal(a) > max_addr
       IN  ScanMaxAddress(ds, i + 1, bus, group, IF hit THEN IntVal(a) ELSE max_addr)

\* a cursor that starts at the maximum found
CursorAfterAtMaximum(bus_raw, group_raw, max_addr) ==
  [ enabled |-> TRUE,
    bus     |-> <<bus_raw>>,
    group   |-> <<group_raw>>,
    next    |-> <<max_addr>> ]

\* the cursor once the scan has ended with max_addr:
\* "self._next_address = max_addr + 1 if max_addr >= 0 else 1"
CursorAfter(bus_raw, group_raw, max_addr) ==
  [ enabled |-> TRUE,
    bus     |-> <<bus_raw>>,
    group   |-> <<group_raw>>,
    next    |-> <<IF max_addr >= 0 THEN max_addr + 1 ELSE 1>> ]

\* start_auto_address(bus_raw, group_raw): the cursor it leaves
start_auto_address(ds, bus_raw, group_raw) ==
  CursorAfter(bus_raw, group_raw, ScanMaxAddress(ds, 1, bus_raw, group_raw, 0))

\* stop_auto_address
stop_auto_address == [enabled |-> FALSE, bus |-> <<>>, group |-> <<>>, next |-> <<>>]

\* the four cursor attributes as one record
Cursor == [enabled |-> auto_address_enabled, bus |-> auto_bus_raw,
           group |-> auto_group_raw, next |-> next_address]

(***************************************************************************)
(* The registry                                                            *)
(***************************************************************************)
\* identities that some reference still holds
UsedIds(ds, lns, pending) ==
  { ds[i].id : i \in DOMAIN ds }
    \cup { lns[i].start : i \in DOMAIN lns } \cup { lns[i].end : i \in DOMAIN lns }
    \cup { pending[i].id : i \in DOMAIN pending }

IdLimit == 3 * MaxDevices + 3

\* a new object's identity: the least one nothing refers to
FreshId(used) == CHOOSE i \in 1..IdLimit : i \notin used /\ \A j \in 1..(i - 1) : j \in used

\* an auto-addressing branch that hands out the address and keeps the cursor
AppendAddressedStuck(ds, device, cur, cur1) ==
  [ detectors |-> Append(ds, [device EXCEPT
                                !.bus_number = IF cur.bus # <<>> THEN cur.bus[1] ELSE @,
                                !.group      = IF cur.group # <<>> THEN cur.group[1] ELSE @,
                                !.address    = IntStr(cur1.next[1])]),
    cursor    |-> cur1 ]

\* the auto-addressing branch of add_detector: cur1 is the cursor after
\* "if self._next_address is None: self.start_auto_address(...)"; the device takes
\* bus and group when they are set, and the next address, which then moves on
AppendAddressed(ds, device, cur, cur1) ==
  [ detectors |-> Append(ds, [device EXCEPT
                                !.bus_number = IF cur.bus # <<>> THEN cur.bus[1] ELSE @,
                                !.group      = IF cur.group # <<>> THEN cur.group[1] ELSE @,
                                !.address    = IntStr(cur1.next[1])]),
    cursor    |-> [cur1 EXCEPT !.next = <<cur1.next[1] + 1>>] ]

\* an add_detector that addresses every "Detector", enabled or not
AppendDeviceAlways(ds, cur, id, pos, device_type) ==
  IF device_type = "Detector"
  THEN AppendAddressed(ds, NewDevice(id, pos, device_type), cur,
                       IF cur.next = <<>>
                       THEN start_auto_address(ds, IF cur.bus = <<>> THEN <<>> ELSE cur.bus[1],
                                                   IF cur.group = <<>> THEN <<>> ELSE cur.group[1])
                       ELSE cur)
  ELSE [detectors |-> Append(ds, NewDevice(id, pos, device_type)), cursor |-> cur]

\* add_detector up to and including self.detectors.append(device): the device
\* takes the cursor's bus, group and next address when it is a "Detector" and
\* auto-addressing is enabled
AppendDevice(ds, cur, id, pos, device_type) ==
  IF device_type = "Detector" /\ cur.enabled
  THEN AppendAddressed(ds, NewDevice(id, pos, device_type), cur,
                       IF cur.next = <<>>
                       THEN start_auto_address(ds, IF cur.bus = <<>> THEN <<>> ELSE cur.bus[1],
                                                   IF cur.group = <<>> THEN <<>> ELSE cur.group[1])
                       ELSE cur)
  ELSE [detectors |-> Append(ds, NewDevice(id, pos, device_type)), cursor |-> cur]

\* update_detector_colors on the registry of r
Coloured(r) == [detectors |-> update_detector_colors(r.detectors), cursor |-> r.cursor]

\* add_detector: AppendDevice, then update_detector_colors
add_detector(ds, cur, id, pos, device_type) ==
  Coloured(AppendDevice(ds, cur, id, pos, device_type))

\* the index of the device with this identity, 0 if it is not registered
IndexOf(ds, id) ==
  IF \E i \in DOMAIN ds : ds[i].id = id THEN CHOOSE i \in DOMAIN ds : ds[i].id = id ELSE 0

RECURSIVE LinesWithoutStart(_, _)
\* self.lines without the connections that start at the device
LinesWithoutStart(lns, id) ==
  IF lns = <<>> THEN <<>>
  ELSE (IF Head(lns).start = id THEN <<>> ELSE <<Head(lns)>>)
         \o LinesWithoutStart(Tail(lns), id)

RECURSIVE LinesWithout(_, _)
\* self.lines without the connections that start or end at the device
LinesWithout(lns, id) ==
  IF lns = <<>> THEN <<>>
  ELSE (IF Head(lns).start = id \/ Head(lns).end = id THEN <<>> ELSE <<Head(lns)>>)
         \o LinesWithout(Tail(lns), id)

\* remove_detector: the new registry and connections
remove_detector(ds, lns, id) ==
  IF IndexOf(ds, id) = 0
  THEN [detectors |-> ds, lines |-> lns]
  ELSE [ detectors |-> update_detector_colors(RemoveAt(ds, IndexOf(ds, id))),
         lines     |-> LinesWithout(lns, id) ]

\* add_line: the connection it appends, with the line item's end points
add_line(lns, s, e) ==
  Append(lns, [start |-> s.id, end |-> e.id, x1 |-> s.x, y1 |-> s.y, x2 |-> e.x, y2 |-> e.y])

\* a click handler without the test "if detector is self._line_start"
handle_line_click_any(lns, pending, d) ==
  IF pending = <<>> THEN [lines |-> lns, line_start |-> <<[id |-> d.id, x |-> d.x, y |-> d.y]>>]
  ELSE [lines |-> add_line(lns, pending[1], d), line_start |-> <<>>]

\* handle_line_click(d): the connections and the pending start it leaves. The
\* pending start is None (<<>>) or <<s>>, s the identity and position of the
\* device object clicked first, which stays referenced whether or not it is
\* still registered
handle_line_click(lns, pending, d) ==
  IF pending = <<>> THEN [lines |-> lns, line_start |-> <<[id |-> d.id, x |-> d.x, y |-> d.y]>>]
  ELSE IF d.id = pending[1].id THEN [lines |-> lns, line_start |-> <<>>]
  ELSE [lines |-> add_line(lns, pending[1], d), line_start |-> <<>>]

(***************************************************************************)
(* The properties dialog (DetectorDialog.accept, mouseDoubleClickEvent)    *)
(***************************************************************************)
\* the text of the dialog's paired-serial field: the one typed in the form, or
\* the prefilled getattr(detector, 'paired_sn', '') when the form leaves it
FormPaired(d, f) ==
  IF "paired_sn" \in DOMAIN f THEN f.paired_sn
  ELSE IF d.paired_sn = <<>> THEN <<>> ELSE d.paired_sn[1]

\* the assignments of DetectorDialog.accept from the form f
ApplyForm(d, f) ==
  [d EXCEPT !.bus_number = f.bus_number, !.address = f.address,
            !.serial_number = f.serial_number, !.group = f.group,
            !.paired_sn = <<FormPaired(d, f)>>]

\* self.detector.update_address_label() on the device at index idx
Relabelled(ds, idx) == [ds EXCEPT ![idx] = update_address_label(ds[idx])]

\* DetectorDialog.accept on the device at index idx. A SmokeDetector gets its
\* range set, the colours updated and its label updated. An IOBox or CallPoint
\* has no set_range: the AttributeError leaves accept after the assignments.
DialogAccept(ds, idx, f, sc) ==
  IF ds[idx].device_type = "Detector"
  THEN Relabelled(update_detector_colors(
                    [ds EXCEPT ![idx] = set_detector_range(ApplyForm(ds[idx], f), f.range, sc)]),
                  idx)
  ELSE [ds EXCEPT ![idx] = ApplyForm(ds[idx], f)]

\* BaseDevice.mouseDoubleClickEvent with the dialog accepted: accept, then
\* controller.update_detector_colors()
mouseDoubleClickEvent(ds, idx, f, sc) == update_detector_colors(DialogAccept(ds, idx, f, sc))

(***************************************************************************)
(* from_dict                                                               *)
(***************************************************************************)
RECURSIVE ClearRegistry(_, _)
\* "for d in list(self.detectors): self.remove_detector(d)": the connections left
ClearRegistry(ds, lns) ==
  IF ds = <<>> THEN lns
  ELSE ClearRegistry(Tail(ds), LinesWithout(lns, Head(ds).id))

\* item.get(key, default)
EntryGet(e, key, default) == IF key \in DOMAIN e THEN e[key] ELSE default

\* float(item.get('x', 0)) and float(item.get('y', 0)) do not raise: an entry
\* with the key x_text carries a position that is no number
EntryParses(e) == "x_text" \notin DOMAIN e

\* the entry's fields assigned to d, paired_sn only "if hasattr(d, 'paired_sn')"
EntryFields(d, e) ==
  [d EXCEPT !.bus_number = EntryGet(e, "bus_number", <<>>),
            !.group = EntryGet(e, "group", <<>>),
            !.address = EntryGet(e, "address", <<>>),
            !.serial_number = EntryGet(e, "serial_number", <<>>),
            !.paired_sn = IF @ = <<>> THEN @ ELSE <<EntryGet(e, "paired_sn", <<>>)>>]

\* the entry's fields assigned to d, then, "if hasattr(d, 'range')",
\* set_detector_range, then update_address_label
RestoredDevice(d, e, sc) ==
  update_address_label(
    IF d.range # <<>>
    THEN set_detector_range(EntryFields(d, e), EntryGet(e, "range", 0), sc)
    ELSE EntryFields(d, e))

\* the device add_detector has just appended in r takes the entry's fields
Restored(r, e, sc) ==
  [ detectors |-> [r.detectors EXCEPT ![Len(r.detectors)] = RestoredDevice(@, e, sc)],
    cursor    |-> r.cursor ]

\* one pass of the "Recreate detectors" loop for the entry e
LoadEntry(ds, cur, id, e, sc) ==
  Restored(add_detector(ds, cur, id, <<EntryGet(e, "x", 0), EntryGet(e, "y", 0)>>,
                        EntryGet(e, "device_type", "Detector")),
           e, sc)

RECURSIVE LoadEntries(_, _, _, _, _)
RECURSIVE LoadRest(_, _, _, _)
\* the "Recreate detectors" loop over the entries left: an entry whose
\* position raises in float() is left by "except Exception: continue"
LoadEntries(ds, cur, held, entries, sc) ==
  IF entries = <<>> THEN [detectors |-> ds, cursor |-> cur]
  ELSE IF ~EntryParses(Head(entries)) THEN LoadEntries(ds, cur, held, Tail(entries), sc)
  ELSE LoadRest(LoadEntry(ds, cur, FreshId(held \cup { ds[i].id : i \in DOMAIN ds }),
                          Head(entries), sc),
                held, Tail(entries), sc)

\* the loop goes on from the registry and cursor of r
LoadRest(r, held, entries, sc) == LoadEntries(r.detectors, r.cursor, held, entries, sc)

\* self.detectors[int(idx)] does not raise IndexError
IndexValid(ds, idx) == 0 - Len(ds) <= idx /\ idx < Len(ds)

\* self.detectors[int(idx)]: a negative index counts from the end
AtIndex(ds, idx) == IF idx >= 0 THEN ds[idx + 1] ELSE ds[Len(ds) + idx + 1]

RECURSIVE LoadLines(_, _, _)
\* the "Recreate lines" loop: a pair with an index out of range is skipped
LoadLines(ds, lns, pairs) ==
  IF pairs = <<>> THEN lns
  ELSE LoadLines(ds,
                 IF IndexValid(ds, Head(pairs)[1]) /\ IndexValid(ds, Head(pairs)[2])
                 THEN add_line(lns, AtIndex(ds, Head(pairs)[1]), AtIndex(ds, Head(pairs)[2]))
                 ELSE lns,
                 Tail(pairs))

\* from_dict once devices and connections are recreated: the final
\* update_detector_colors, and what the project now holds
Loaded(loaded, lns0, pairs, sc1, fp1) ==
  [ detectors |-> update_detector_colors(loaded.detectors),
    lines     |-> LoadLines(loaded.detectors, lns0, pairs),
    scale     |-> sc1,
    cursor    |-> loaded.cursor,
    floorplan |-> fp1 ]

\* from_dict from "Recreate detectors" on: lns0 are the connections left by the
\* removals, fp1 and sc1 the plan and scale restored
LoadInto(doc, lns0, pending, cur, fp1, sc1) ==
  Loaded(LoadEntries(<<>>, cur, UsedIds(<<>>, lns0, pending), doc.detectors, sc1),
         lns0, doc.lines, sc1, fp1)

\* from_dict(doc). doc.plan is <<>> when the document names no plan, else <<fp>>
\* with the plan state load_floor_plan leaves; doc.scale is <<>> when the
\* document has no "scale", else <<arg>>.
from_dict(doc, ds, lns, pending, sc, cur, fp) ==
  LoadInto(doc, ClearRegistry(ds, lns), pending, cur,
           IF doc.plan = <<>> THEN fp ELSE doc.plan[1],
           IF doc.scale = <<>> THEN sc
           ELSE set_scale(doc.scale[1], <<>>, IF doc.plan = <<>> THEN fp ELSE doc.plan[1]).scale)

(***************************************************************************)
(* Calibration (start_calibration, _on_calibration_point)                  *)
(***************************************************************************)
\* pixel_distance = math.hypot(p2.x - p1.x, p2.y - p1.y) of the first two points
PixelDistance(points) == hypot(points[2][1] - points[1][1], points[2][2] - points[1][2])

\* a prompt that opens with the first point already
PromptDueEarly(points) == Len(points) >= 1

\* "if len(self._calibration_points) < 2: return" does not return
PromptDue(points) == Len(points) >= 2

\* the validity test without "not ok"
CalibrationInvalidNoOk(ok, meters, pixel_distance) ==
  meters <= 0 \/ ~RealPositive(pixel_distance)

\* "if not ok or meters <= 0 or pixel_distance <= 0"
CalibrationInvalid(ok, meters, pixel_distance) ==
  ~ok \/ meters <= 0 \/ ~RealPositive(pixel_distance)

\* the quotient taken the wrong way round
MetersPerPixelSwapped(meters, pixel_distance) ==
  RealDiv(pixel_distance, Ratio(meters, 10))

\* meters_per_pixel = float(meters) / float(pixel_distance), meters in tenths
MetersPerPixel(meters, pixel_distance) ==
  RealDiv(Ratio(meters, 10), pixel_distance)

(***************************************************************************)
(* Initial state (FloorPlanController.__init__)                            *)
(***************************************************************************)
Init ==
  /\ detectors = <<>>
  /\ lines = <<>>
  /\ line_start = <<>>
  /\ scale = NumScale(Real(1, 1, 1))
  /\ calibrating = FALSE
  /\ calibration_points = <<>>
  /\ modal = "none"
  /\ show_arrows = FALSE
  /\ auto_arrows = <<>>
  /\ auto_address_enabled = FALSE
  /\ auto_bus_raw = <<>>
  /\ auto_group_raw = <<>>
  /\ next_address = <<>>
  /\ floorplan = NoPlan
  /\ export_arrows = FALSE
  /\ docs_built = 0
  /\ add_mode = FALSE
  /\ measure_mode = FALSE
  /\ measure_points = <<>>
  /\ restore_timers = <<>>

(***************************************************************************)
(* Handlers                                                                *)
(***************************************************************************)
SetCursor(cur) ==
  /\ auto_address_enabled' = cur.enabled
  /\ auto_bus_raw' = cur.bus
  /\ auto_group_raw' = cur.group
  /\ next_address' = cur.next

\* the registry and the cursor become those of r
SetRegistry(r) ==
  /\ detectors' = r.detectors
  /\ SetCursor(r.cursor)

\* MainWindow._on_add_device_requested: add_detector(pos, self.device_type_to_add)
OnAddDeviceRequested(pos, device_type) ==
  /\ modal = "none"
  /\ Len(detectors) < MaxDevices
  /\ (auto_address_enabled /\ device_type = "Detector" /\ next_address # <<>>)
       => next_address[1] <= MaxAddress
  /\ SetRegistry(add_detector(detectors, Cursor, FreshId(UsedIds(detectors, lines, line_start)),
                              pos, device_type))
  /\ auto_arrows' = update_address_arrows(detectors', show_arrows)
  /\ UNCHANGED <<lines, line_start, scale, calibration_vars, modal, show_arrows,
                 floorplan, export_arrows, docs_built, view_vars, restore_timers>>

\* the registry and the connections become those of r
SetDevicesAndLines(r) ==
  /\ detectors' = r.detectors
  /\ lines' = r.lines

\* the context menu's Delete: controller.remove_detector(device)
RemoveDetector(id) ==
  /\ modal = "none"
  /\ SetDevicesAndLines(remove_detector(detectors, lines, id))
  /\ auto_arrows' = IF IndexOf(detectors, id) = 0 THEN auto_arrows
                    ELSE update_address_arrows(detectors', show_arrows)
  /\ UNCHANGED <<line_start, scale, calibration_vars, modal, show_arrows, cursor_vars,
                 floorplan, export_arrows, docs_built, view_vars, restore_timers>>

\* a double click on the device at index idx, the dialog accepted with form f
EditDevice(idx, f) ==
  /\ modal = "none"
  /\ idx \in DOMAIN detectors
  /\ detectors' = mouseDoubleClickEvent(detectors, idx, f, scale)
  /\ auto_arrows' = update_address_arrows(detectors', show_arrows)
  /\ UNCHANGED <<lines, line_start, scale, calibration_vars, modal, show_arrows,
                 cursor_vars, floorplan, export_arrows, docs_built,
                 view_vars, restore_timers>>

\* registry, connections, scale, plan and cursor become those of r
SetProject(r) ==
  /\ detectors' = r.detectors
  /\ lines' = r.lines
  /\ scale' = r.scale
  /\ floorplan' = r.floorplan
  /\ SetCursor(r.cursor)

\* MainWindow.open_project: from_dict(doc)
OpenProject(doc) ==
  /\ modal = "none"
  /\ SetProject(from_dict(doc, detectors, lines, line_start, scale, Cursor, floorplan))
  /\ auto_arrows' = update_address_arrows(detectors', show_arrows)
  /\ UNCHANGED <<line_start, calibration_vars, modal, show_arrows, export_arrows, docs_built,
                 view_vars, restore_timers>>

\* scale and registry become those of r
SetScaleAndDevices(r) ==
  /\ scale' = r.scale
  /\ detectors' = r.detectors

\* a start that keeps the points of the session before
StartCalibrationKeepingPoints ==
  /\ modal = "none"
  /\ calibrating' = TRUE
  /\ calibration_points' = calibration_points
  /\ UNCHANGED <<detectors, lines, line_start, scale, modal, show_arrows, auto_arrows,
                 cursor_vars, floorplan, export_arrows, docs_built,
                 view_vars, restore_timers>>

\* start_calibration
StartCalibration ==
  /\ modal = "none"
  /\ calibrating' = TRUE
  /\ calibration_points' = <<>>
  /\ UNCHANGED <<detectors, lines, line_start, scale, modal, show_arrows, auto_arrows,
                 cursor_vars, floorplan, export_arrows, docs_built,
                 view_vars, restore_timers>>

\* _on_calibration_point up to QInputDialog.getDouble: the point is stored while
\* calibrating, and with the second point the handler waits in the distance prompt
OnCalibrationPoint(pos) ==
  /\ modal = "none"
  /\ IF ~calibrating
     THEN UNCHANGED <<calibration_points, modal>>
     ELSE /\ calibration_points' = Append(calibration_points, pos)
          /\ modal' = IF PromptDue(calibration_points') THEN "distance" ELSE "none"
  /\ UNCHANGED <<detectors, lines, line_start, scale, calibrating, show_arrows, auto_arrows,
                 cursor_vars, floorplan, export_arrows, docs_built,
                 view_vars, restore_timers>>

\* the scale becomes that of r, and the ranges are applied again under it
Calibrated(r) ==
  /\ scale' = r.scale
  /\ detectors' = ReapplyRanges(r.detectors, r.scale)

\* _on_calibration_point from the answer (meters, ok) of QInputDialog.getDouble
\* on: set_scale, then the ranges are applied again under the new scale
OnDistanceInput(ans) ==
  /\ modal = "distance"
  /\ modal' = "none"
  /\ calibrating' = FALSE
  /\ IF CalibrationInvalid(ans.ok, ans.meters, PixelDistance(calibration_points))
     THEN UNCHANGED <<scale, detectors>>
     ELSE Calibrated(set_scale(NumScale(MetersPerPixel(ans.meters,
                                                      PixelDistance(calibration_points))),
                               detectors, floorplan))
  /\ UNCHANGED <<lines, line_start, calibration_points, show_arrows, auto_arrows,
                 cursor_vars, floorplan, export_arrows, docs_built,
                 view_vars, restore_timers>>

(***************************************************************************)
(* Calibration sessions                                                    *)
(***************************************************************************)
\* scene positions the user clicks while calibrating: the distances between
\* them are 50, sqrt(200), sqrt(1300) and, for a repeated point, 0
CalPoints == { <<0, 0>>, <<30, 40>>, <<10, 10>> }

\* answers of the distance prompt, meters in tenths; a cancelled prompt
\* returns its default 1.0 with ok = False
DistanceAnswers ==
  { [ok |-> TRUE, meters |-> 5], [ok |-> TRUE, meters |-> 20], [ok |-> FALSE, meters |-> 10] }

CalDevicePositions == { <<20, 0>> }

CalDeviceTypes == { "Detector", "IO" }

\* a saved project: two devices 40 px apart joined by a connection, scale "1:100"
CalDocument ==
  [ plan      |-> <<>>,
    scale     |-> <<TextScale(<<"1", ":", "1", "0", "0">>)>>,
    detectors |-> << [x |-> 0, y |-> 0, device_type |-> "Detector", bus_number |-> <<"1">>,
                      group |-> <<"2">>, address |-> <<"1">>, serial_number |-> <<"A">>,
                      range |-> 30],
                     [x |-> 40, y |-> 0, device_type |-> "CallPoint", bus_number |-> <<"1">>,
                      group |-> <<"2">>, address |-> <<"2">>, serial_number |-> <<>>,
                      range |-> 0] >>,
    lines     |-> << <<0, 1>> >> ]

NextCalibration ==
  \/ StartCalibration
  \/ \E pos \in CalPoints : OnCalibrationPoint(pos)
  \/ \E ans \in DistanceAnswers : OnDistanceInput(ans)
  \/ \E pos \in CalDevicePositions, t \in CalDeviceTypes : OnAddDeviceRequested(pos, t)
  \/ \E i \in 1..IdLimit : RemoveDetector(i)
  \/ OpenProject(CalDocument)

SpecCalibration == Init /\ [][NextCalibration]_vars

\* the squared pixel distance between the two calibration points
CalSquaredPixels ==
  (calibration_points[2][1] - calibration_points[1][1]) * (calibration_points[2][1] - calibration_points[1][1])
    + (calibration_points[2][2] - calibration_points[1][2]) * (calibration_points[2][2] - calibration_points[1][2])

\* C1: when the distance prompt is answered with a positive distance D and the
\* two points are distinct, the scale afterwards is the positive number
\* D / euclid(P1, P2), whatever it was before: its square is the fraction
\* D^2 / |P1 P2|^2 in lowest terms (D in tenths of a meter)
CalibrationCommit ==
  [][ \A ans \in DistanceAnswers :
        (OnDistanceInput(ans) /\ ans.ok /\ ans.meters > 0 /\ CalSquaredPixels > 0)
          => /\ scale'.num
             /\ scale'.val.sgn = 1
             /\ scale'.val.n2 * GCD(ans.meters * ans.meters, 100 * CalSquaredPixels)
                  = ans.meters * ans.meters
             /\ scale'.val.d2 * GCD(ans.meters * ans.meters, 100 * CalSquaredPixels)
                  = 100 * CalSquaredPixels ]_vars

\* a calibration committed 0.5 m over the points (0,0) and (10,10)
CalibrationCommitWitness ==
  /\ ~calibrating
  /\ calibration_points = << <<0, 0>>, <<10, 10>> >>
  /\ scale = NumScale(Real(1, 1, 800))

\* C2: when the distance prompt is cancelled, or answered for two coincident
\* points, or with a non-positive distance, the answer leaves the scale, the
\* devices (ranges included) and the connections as they were, and calibration
\* ends idle; starting the calibration and collecting its points leave them
\* as they were too
CalibrationAbort ==
  [][ /\ \A ans \in DistanceAnswers :
           (OnDistanceInput(ans) /\ (~ans.ok \/ ans.meters <= 0 \/ CalSquaredPixels = 0))
             => /\ UNCHANGED <<scale, detectors, lines>>
                /\ ~calibrating'
                /\ modal' = "none"
      /\ StartCalibration => UNCHANGED <<scale, detectors, lines>>
      /\ \A pos \in CalPoints : OnCalibrationPoint(pos) => UNCHANGED <<scale, detectors, lines>>
    ]_vars

\* a calibration over a repeated point has ended with the unresolved scale
\* "1:100" and the loaded devices and connection still in place
CalibrationAbortWitness ==
  /\ ~calibrating
  /\ modal = "none"
  /\ Len(calibration_points) = 2
  /\ calibration_points[1] = calibration_points[2]
  /\ ~scale.num
  /\ Len(detectors) = 2
  /\ Len(lines) = 1

\* C3: the distance prompt is open only while calibrating with exactly two
\* points stored since start_calibration, and it opens on the second point;
\* once it is answered the controller is idle; a calibration point delivered
\* while idle changes nothing
CalibrationOrdering ==
  /\ [](modal = "distance" => calibrating /\ Len(calibration_points) = 2)
  /\ [][ /\ (modal # "distance" /\ modal' = "distance")
            => calibrating /\ Len(calibration_points) = 1 /\ Len(calibration_points') = 2
         /\ (modal = "distance" /\ modal' # "distance") => ~calibrating' /\ modal' = "none"
         /\ \A pos \in CalPoints : (OnCalibrationPoint(pos) /\ ~calibrating) => UNCHANGED vars
         /\ (calibrating /\ Len(calibration_points') > Len(calibration_points))
            => Len(calibration_points') = Len(calibration_points) + 1 ]_vars

\* a second session: the prompt is open on two points after an earlier session ended
CalibrationOrderingWitness ==
  /\ modal = "distance"
  /\ calibrating
  /\ Len(calibration_points) = 2
  /\ scale.num /\ scale.val # Real(1, 1, 1)

\* C25: start_calibration in any state, also after one point was collected,
\* leaves the workflow awaiting the first point with no point collected; the
\* points only grow by one click at a time while calibrating, never beyond
\* two, so there is one session at most, and a committed scale is computed
\* from the two points clicked since the last start
CalibrationRestart ==
  /\ [](Len(calibration_points) <= 2)
  /\ [][ /\ StartCalibration => calibrating' /\ calibration_points' = <<>> /\ modal' = "none"
         /\ calibration_points' # calibration_points
              => \/ calibration_points' = <<>> /\ calibrating' /\ modal' = "none"
                 \/ /\ calibrating
                    /\ \E pos \in CalPoints :
                         calibration_points' = Append(calibration_points, pos)
         /\ (modal = "distance" /\ scale' # scale)
              => /\ Len(calibration_points) = 2
                 /\ calibration_points' = calibration_points
                 /\ \E ans \in DistanceAnswers :
                      scale' = NumScale(MetersPerPixel(ans.meters,
                                                       PixelDistance(calibration_points)))
       ]_vars

\* a later session with one point collected: the two points of the session
\* that committed the scale are gone
CalibrationRestartWitness ==
  /\ calibrating
  /\ modal = "none"
  /\ Len(calibration_points) = 1
  /\ scale.num /\ scale.val # Real(1, 1, 1)

(***************************************************************************)
(* Serial numbers: colours and validation                                  *)
(***************************************************************************)
\* serial texts the dialog and a project file can carry
Serials == { <<>>, <<"A">>, <<"A", " ">>, <<" ">> }

\* forms of the properties dialog that vary the serial; without a bus the
\* device has no address label and is named by its position
SerialForms ==
  { [bus_number |-> IF sn = <<"A", " ">> THEN <<>> ELSE <<"1">>, group |-> <<"2">>,
     address |-> <<"5">>, serial_number |-> sn, range |-> DefaultRange] : sn \in Serials }

SerialDeviceTypes == { "Detector", "CallPoint" }

\* a saved project with two devices that carry the same serial
SerialDocument ==
  [ plan      |-> <<>>,
    scale     |-> <<>>,
    detectors |-> << [x |-> 0, y |-> 0, device_type |-> "Detector", bus_number |-> <<"1">>,
                      group |-> <<"2">>, address |-> <<"1">>, serial_number |-> <<"A">>,
                      range |-> DefaultRange],
                     [x |-> 40, y |-> 0, device_type |-> "IO", bus_number |-> <<>>,
                      group |-> <<>>, address |-> <<>>, serial_number |-> <<"A">>,
                      range |-> 0] >>,
    lines     |-> <<>> ]

\* a step of one of the handlers that change the registry or a serial
SerialMutation ==
  \/ \E t \in SerialDeviceTypes : OnAddDeviceRequested(<<10, 10>>, t)
  \/ \E i \in DOMAIN detectors : RemoveDetector(detectors[i].id)
  \/ \E idx \in 1..MaxDevices, f \in SerialForms : EditDevice(idx, f)
  \/ OpenProject(SerialDocument)

NextSerial == SerialMutation

SpecSerial == Init /\ [][NextSerial]_vars

\* every device is drawn orange when its serial is empty or carried by another
\* registered device, and green otherwise
ColoursMatchSerials ==
  \A i \in DOMAIN detectors :
    detectors[i].brush =
      IF \/ detectors[i].serial_number = <<>>
         \/ \E j \in DOMAIN detectors : j # i /\ detectors[j].serial_number = detectors[i].serial_number
      THEN "orange" ELSE "green"

\* C4: after every mutation that can change a serial (add, remove, dialog
\* edit, from_dict) a device is marked non-unique (orange) exactly when its
\* serial is empty or equal to another registered device's serial, and unique
\* (green) otherwise
SerialColouring == [][SerialMutation => ColoursMatchSerials']_vars

\* a call point and a second device share the serial "A" and are both orange
SerialColouringWitness ==
  /\ Len(detectors) = 2
  /\ detectors[1].device_type = "CallPoint"
  /\ detectors[1].serial_number = <<"A">>
  /\ detectors[2].serial_number = <<"A">>
  /\ detectors[1].brush = "orange"
  /\ detectors[2].brush = "orange"

\* the errors validate_project returns now
ValidationErrors == validate_project(detectors, scale).errors

ErrorsOfKind(kind) == SelectSeq(ValidationErrors, LAMBDA e : e.kind = kind)

\* the serial errors of validate_project against the registry, a serial read
\* through Norm: one missing-serial error when some device's serial is empty
\* and none otherwise; one duplicate-serial error for each non-empty serial
\* that two or more devices carry, naming each of them, and no other
SerialErrorsAgree(Norm(_)) ==
  LET Holders(sn) == { i \in DOMAIN detectors : Norm(detectors[i].serial_number) = sn }
      dups        == ErrorsOfKind("duplicate_serial")
  IN  /\ Len(ErrorsOfKind("missing_serial")) = IF Holders(<<>>) # {} THEN 1 ELSE 0
      /\ \A i \in DOMAIN detectors :
           LET sn == Norm(detectors[i].serial_number)
           IN  sn # <<>> =>
                 Cardinality({ k \in DOMAIN dups : dups[k].key = sn })
                   = IF Cardinality(Holders(sn)) >= 2 THEN 1 ELSE 0
      /\ \A k \in DOMAIN dups :
           /\ dups[k].key # <<>>
           /\ Cardinality(Holders(dups[k].key)) >= 2
           /\ Len(dups[k].names) = Cardinality(Holders(dups[k].key))
           /\ Range(dups[k].names) = { NameByLabel(detectors[i]) : i \in Holders(dups[k].key) }

\* C5 as stated: serials are compared as stored, "empty" is the empty text
SerialErrorsAsStored == SerialErrorsAgree(LAMBDA sn : sn)

\* C5: validate_project reports a missing-serial error exactly when some
\* device's serial is empty once surrounding whitespace is stripped, and exactly
\* one duplicate-serial error for each non-empty stripped serial that two or
\* more devices carry, naming every one of them
SerialErrorsStripped == SerialErrorsAgree(Strip)

\* serials "A" and "A " on two devices: reported as one duplicate of 'A'
SerialErrorsWitness ==
  /\ Len(detectors) = 2
  /\ detectors[1].serial_number = <<"A">>
  /\ detectors[2].serial_number = <<"A", " ">>
  /\ Len(ErrorsOfKind("duplicate_serial")) = 1
  /\ Len(ErrorsOfKind("duplicate_serial")[1].names) = 2

(***************************************************************************)
(* Address labels in validation                                            *)
(***************************************************************************)
\* forms of the properties dialog that vary bus and address: "1" and "01",
\* "5" and "05" give the same label, "A" takes the unformatted fallback, and
\* without a bus the label is empty
AddressForms ==
  { [bus_number |-> b, group |-> <<"2">>,
     address |-> IF b = <<"0", "1">> THEN <<"0", "5">> ELSE <<"5">>,
     serial_number |-> <<"S">>, range |-> DefaultRange] :
       b \in { <<>>, <<"1">>, <<"0", "1">>, <<"A">> } }

AddressDeviceTypes == { "Detector", "IO" }

\* a saved project with two devices that carry the same address 01-2007
AddressDocument ==
  [ plan      |-> <<>>,
    scale     |-> <<>>,
    detectors |-> << [x |-> 0, y |-> 0, device_type |-> "Detector", bus_number |-> <<"1">>,
                      group |-> <<"2">>, address |-> <<"7">>, serial_number |-> <<"A">>,
                      range |-> DefaultRange],
                     [x |-> 40, y |-> 0, device_type |-> "Detector", bus_number |-> <<"1">>,
                      group |-> <<"2">>, address |-> <<"0", "0", "7">>,
                      serial_number |-> <<"B">>, range |-> DefaultRange] >>,
    lines     |-> <<>> ]

NextAddress ==
  \/ \E t \in AddressDeviceTypes : OnAddDeviceRequested(<<10, 10>>, t)
  \/ \E i \in DOMAIN detectors : RemoveDetector(detectors[i].id)
  \/ \E idx \in 1..MaxDevices, f \in AddressForms : EditDevice(idx, f)
  \/ OpenProject(AddressDocument)

SpecAddress == Init /\ [][NextAddress]_vars

\* C6: validate_project reports exactly one duplicate-address error for every
\* non-empty full address label carried by two or more devices, listing one
\* position per carrier, and none for a label carried once or for devices
\* whose label is empty
DuplicateAddressReport ==
  LET Carriers(lbl) == { i \in DOMAIN detectors : get_full_address_label(detectors[i]) = lbl }
      dups          == ErrorsOfKind("duplicate_address")
  IN  /\ \A i \in DOMAIN detectors :
           LET lbl == get_full_address_label(detectors[i])
           IN  Cardinality({ k \in DOMAIN dups : dups[k].key = lbl })
                 = IF lbl # <<>> /\ Cardinality(Carriers(lbl)) >= 2 THEN 1 ELSE 0
      /\ \A k \in DOMAIN dups :
           /\ dups[k].key # <<>>
           /\ Cardinality(Carriers(dups[k].key)) >= 2
           /\ Len(dups[k].names) = Cardinality(Carriers(dups[k].key))
           /\ \A n \in DOMAIN dups[k].names : dups[k].names[n].at

\* bus "1", address "5" and bus "01", address "05" both read 01-2005: one error
DuplicateAddressWitness ==
  /\ Len(detectors) = 2
  /\ detectors[1].bus_number = <<"1">> /\ detectors[1].address = <<"5">>
  /\ detectors[2].bus_number = <<"0", "1">> /\ detectors[2].address = <<"0", "5">>
  /\ Len(ErrorsOfKind("duplicate_address")) = 1
  /\ ErrorsOfKind("duplicate_address")[1].key = <<"0", "1", "-", "2", "0", "0", "5">>

(***************************************************************************)
(* Spacing and the scale in validation                                     *)
(***************************************************************************)
\* MainWindow.new_project answered to the end: load_floor_plan(image_path),
\* then set_scale(scale_text). plan is <<>> when load_floor_plan raised, else
\* <<fp>> with the plan state it leaves.
NewProject(plan, scale_text) ==
  /\ modal = "none"
  /\ floorplan' = IF plan = <<>> THEN floorplan ELSE plan[1]
  /\ SetScaleAndDevices(set_scale(TextScale(scale_text), detectors, floorplan'))
  /\ UNCHANGED <<lines, line_start, calibration_vars, modal, show_arrows, auto_arrows,
                 cursor_vars, export_arrows, docs_built, view_vars, restore_timers>>

\* an image file as floor plan
ImagePlan == [item |-> TRUE, is_pdf |-> FALSE, pdf_page |-> <<>>,
              rect_w |-> 0, rect_h |-> 0, pixel_width |-> 800]

\* positions whose pairs are 0, 30, 40, 50, 60 and sqrt(4500) px apart
SpacingPositions == { <<0, 0>>, <<40, 0>>, <<0, 30>>, <<60, 0>> }

\* scale texts: 0.01 m/px, a ratio no image plan can resolve, zero, a negative
ScaleTexts == { <<"0", ".", "0", "1">>, <<"1", ":", "1", "0", "0">>, <<"0">>,
                <<"-", "0", ".", "0", "1">> }

\* the one form of the dialog here: it gives the device an address label
SpacingForm ==
  [bus_number |-> <<"1">>, group |-> <<"2">>, address |-> <<"5">>, serial_number |-> <<"A">>,
   range |-> DefaultRange]

NextSpacing ==
  \/ \E pos \in SpacingPositions : OnAddDeviceRequested(pos, "Detector")
  \/ detectors # <<>> /\ RemoveDetector(detectors[Len(detectors)].id)
  \/ \E idx \in 1..MaxDevices : EditDevice(idx, SpacingForm)
  \/ \E t \in ScaleTexts : NewProject(<<ImagePlan>>, t)

SpecSpacing == Init /\ [][NextSpacing]_vars

\* the squared pixel distance between the devices at indexes i and j
SquaredPixels(i, j) ==
  (detectors[i].x - detectors[j].x) * (detectors[i].x - detectors[j].x)
    + (detectors[i].y - detectors[j].y) * (detectors[i].y - detectors[j].y)

\* the index pairs i < j whose distance in meters, pixels times scale, is
\* below 0.5: 4 * pixels^2 * scale^2 < 1
ClosePairs ==
  { p \in (DOMAIN detectors) \X (DOMAIN detectors) :
      p[1] < p[2] /\ 4 * SquaredPixels(p[1], p[2]) * scale.val.n2 < scale.val.d2 }

\* C7: with a resolved scale, validate_project reports one too-close error
\* for every unordered pair of devices less than 0.5 m apart, naming the two,
\* and none for a pair at 0.5 m or more; at 0.01 m/px a pair 40 px apart is
\* reported and a pair 60 px apart is not
SpacingReport ==
  (scale.num /\ scale.val.sgn = 1) =>
    LET errs == ErrorsOfKind("too_close")
    IN  /\ Len(errs) = Cardinality(ClosePairs)
        /\ \A p \in ClosePairs :
             \E k \in DOMAIN errs :
               errs[k].names = <<NameByLabel(detectors[p[1]]), NameByLabel(detectors[p[2]])>>
        /\ (scale.val = Ratio(1, 100) /\ Len(detectors) = 2 /\ SquaredPixels(1, 2) = 40 * 40)
             => Len(errs) = 1
        /\ (scale.val = Ratio(1, 100) /\ Len(detectors) = 2 /\ SquaredPixels(1, 2) = 60 * 60)
             => Len(errs) = 0

\* at 0.01 m/px two devices 40 px apart: one too-close error
SpacingReportWitness ==
  /\ scale = NumScale(Ratio(1, 100))
  /\ Len(detectors) = 2
  /\ SquaredPixels(1, 2) = 1600
  /\ Len(ErrorsOfKind("too_close")) = 1

\* C8: when the scale is not a positive number (an unresolved text, zero or a
\* negative number) validate_project returns exactly one warning, that spacing
\* checks were skipped, and no too-close error wherever the devices are; when
\* the scale is a positive number it returns no warning
UnresolvedScaleReport ==
  LET w == validate_project(detectors, scale).warnings
  IN  IF scale.num /\ scale.val.sgn = 1
      THEN w = <<>>
      ELSE w = <<"scale_not_numeric">> /\ ErrorsOfKind("too_close") = <<>>

\* the scale is the number 0 and two devices sit on the same spot
UnresolvedScaleWitness ==
  /\ scale.num
  /\ scale.val.sgn = 0
  /\ Len(detectors) = 2
  /\ SquaredPixels(1, 2) = 0
  /\ validate_project(detectors, scale).warnings = <<"scale_not_numeric">>

(***************************************************************************)
(* Export                                                                  *)
(***************************************************************************)
\* set_show_arrows(show): the new self._auto_arrows
set_show_arrows(ds, show) == update_arrow_visibility(update_address_arrows(ds, show), show)

\* MainWindow._on_show_arrows_toggled
OnShowArrowsToggled(checked) ==
  /\ modal = "none"
  /\ show_arrows' = checked
  /\ auto_arrows' = set_show_arrows(detectors, checked)
  /\ UNCHANGED <<detectors, lines, line_start, scale, calibration_vars, modal, cursor_vars,
                 floorplan, export_arrows, docs_built, view_vars, restore_timers>>

\* the key of the bus_groups dict for a device with no bus number
Unassigned == <<"U", "n", "a", "s", "s", "i", "g", "n", "e", "d">>

\* bus_num = getattr(d, 'bus_number', '') or 'Unassigned'
BusKey(d) == IF d.bus_number = <<>> THEN Unassigned ELSE d.bus_number

RECURSIVE InsertByText(_, _, _)
\* idx put into the index list sorted by the address text, after every entry
\* that is not greater (list.sort is stable)
InsertByText(ds, sorted, idx) ==
  IF sorted = <<>> THEN <<idx>>
  ELSE IF StrLess(ds[idx].address, ds[Head(sorted)].address)
       THEN <<idx>> \o sorted
       ELSE <<Head(sorted)>> \o InsertByText(ds, Tail(sorted), idx)

RECURSIVE SortByText(_, _)
\* bus.sort(key=lambda d: getattr(d, 'address', '')): the addresses compared as str
SortByText(ds, idxs) ==
  IF idxs = <<>> THEN <<>>
  ELSE InsertByText(ds, SortByText(ds, SubSeq(idxs, 1, Len(idxs) - 1)), idxs[Len(idxs)])

RECURSIVE BusMembers(_, _, _)
\* bus_groups[key]: the registry indices of the bus, in registry order
BusMembers(ds, key, i) ==
  IF i > Len(ds) THEN <<>>
  ELSE (IF BusKey(ds[i]) = key THEN <<i>> ELSE <<>>) \o BusMembers(ds, key, i + 1)

RECURSIVE SortedKeys(_)
\* sorted(bus_groups.keys())
SortedKeys(keys) ==
  IF keys = {} THEN <<>>
  ELSE LET first == CHOOSE k \in keys : \A o \in keys \ {k} : StrLess(k, o)
       IN  <<first>> \o SortedKeys(keys \ {first})

\* the table row of a device; id is the device the row is made from
ReportRow(d) ==
  [ id |-> d.id, full_label |-> get_full_address_label(d), serial_number |-> d.serial_number,
    paired_sn |-> IF d.paired_sn = <<>> THEN <<>> ELSE d.paired_sn[1],
    device_type |-> d.device_type ]

\* the "Bus {bus_num}" header and the rows under it
ReportTable(ds, key, sorted) ==
  [ bus |-> key, rows |-> [ k \in DOMAIN sorted |-> ReportRow(ds[sorted[k]]) ] ]

\* the device tables of the report: one per key of bus_groups, in sorted key
\* order, the devices of each sorted by address
ReportTablesOf(ds, keys) ==
  [ k \in DOMAIN keys |-> ReportTable(ds, keys[k], SortByText(ds, BusMembers(ds, keys[k], 1))) ]

ReportTables(ds) == ReportTablesOf(ds, SortedKeys({ BusKey(ds[i]) : i \in DOMAIN ds }))

\* an export that goes on whatever validate_project found
ExportBlockedNever(errors) == FALSE

\* "if errors: ... return"
ExportBlocked(errors) == errors # <<>>

\* export_to_pdf from "Temporarily adjust arrow visibility" on: the arrows are
\* set as include_arrows asks, doc.build writes the report, whose device tables
\* are ReportTables(detectors), unless it raises (built = FALSE), and the
\* finally clause sets the arrows back
ExportBuild(include_arrows, built) ==
  /\ docs_built' = IF built THEN docs_built + 1 ELSE docs_built
  /\ auto_arrows' = set_show_arrows(detectors, show_arrows)

\* MainWindow.export_to_pdf around the controller's export_to_pdf: the box
\* "Export Complete" when the call returns, by whichever path, and the box
\* "Export Error" when it raises
ExportNotice(returned) == IF returned THEN "export_complete" ELSE "export_error"

\* export_to_pdf(file_path, include_arrows) up to the warning prompt; no path
\* of export_to_pdf changes the devices, the connections, the scale, the
\* calibration, the arrow setting, the cursor or the plan
ExportToPdf(include_arrows, built) ==
  /\ modal = "none"
  /\ docs_built < MaxBuilds
  /\ UNCHANGED <<detectors, lines, line_start, scale, calibration_vars, show_arrows,
                 cursor_vars, floorplan, view_vars, restore_timers>>
  /\ LET v == validate_project(detectors, scale)
     IN  IF ExportBlocked(v.errors)
         THEN /\ modal' = ExportNotice(TRUE)
              /\ UNCHANGED <<export_arrows, auto_arrows, docs_built>>
         ELSE IF v.warnings # <<>>
         THEN /\ modal' = "export_confirm"
              /\ export_arrows' = include_arrows
              /\ UNCHANGED <<auto_arrows, docs_built>>
         ELSE /\ ExportBuild(include_arrows, built)
              /\ modal' = ExportNotice(built)
              /\ UNCHANGED export_arrows

\* export_to_pdf from the answer of the warning prompt on
OnExportAnswer(yes, built) ==
  /\ modal = "export_confirm"
  /\ modal' = ExportNotice(yes => built)
  /\ export_arrows' = FALSE
  /\ UNCHANGED <<detectors, lines, line_start, scale, calibration_vars, show_arrows,
                 cursor_vars, floorplan, view_vars, restore_timers>>
  /\ IF yes
     THEN ExportBuild(export_arrows, built)
     ELSE UNCHANGED <<auto_arrows, docs_built>>

\* the box MainWindow.export_to_pdf has shown is closed
DismissNotice ==
  /\ modal \in {"export_complete", "export_error"}
  /\ modal' = "none"
  /\ UNCHANGED <<detectors, lines, line_start, scale, calibration_vars, show_arrows,
                 auto_arrows, cursor_vars, floorplan, export_arrows, docs_built, view_vars,
                 restore_timers>>

\* forms that give a device an address and a serial of its own; a device has
\* no serial until it is edited
ExportForms ==
  { [bus_number |-> <<"1">>, group |-> <<"2">>, address |-> <<"1">>, serial_number |-> <<"A">>,
     range |-> DefaultRange],
    [bus_number |-> <<"1">>, group |-> <<"2">>, address |-> <<"2">>, serial_number |-> <<"B">>,
     range |-> DefaultRange] }

\* scale texts: 0.01 m/px and a ratio no image plan can resolve
ExportScaleTexts == { <<"0", ".", "0", "1">>, <<"1", ":", "1", "0", "0">> }

NextExport ==
  \/ OnAddDeviceRequested(<<60 * Len(detectors), 0>>, "Detector")
  \/ \E idx \in 1..MaxDevices, f \in ExportForms : EditDevice(idx, f)
  \/ \E t \in ExportScaleTexts : NewProject(<<ImagePlan>>, t)
  \/ \E checked \in BOOLEAN : OnShowArrowsToggled(checked)
  \/ \E include_arrows \in BOOLEAN, built \in BOOLEAN : ExportToPdf(include_arrows, built)
  \/ \E yes \in BOOLEAN, built \in BOOLEAN : OnExportAnswer(yes, built)
  \/ DismissNotice

SpecExport == Init /\ [][NextExport]_vars

\* C9: a report document is built only when validate_project returns no
\* error and either no warning or the user has answered the warning prompt
\* with yes; the warning prompt is open only without errors and with a
\* warning; an export that finds an error, and a prompt answered no, build
\* no document and leave devices, scale, connections, arrow visibility and
\* the arrows as they were
ExportGating ==
  /\ [](modal = "export_confirm"
          => ValidationErrors = <<>> /\ validate_project(detectors, scale).warnings # <<>>)
  /\ [][ /\ docs_built' # docs_built
            => /\ ValidationErrors = <<>>
               /\ validate_project(detectors, scale).warnings = <<>> \/ modal = "export_confirm"
               /\ modal = "export_confirm" => \E built \in BOOLEAN : OnExportAnswer(TRUE, built)
         /\ \A include_arrows \in BOOLEAN, built \in BOOLEAN :
              (ExportToPdf(include_arrows, built) /\ ValidationErrors # <<>>)
                => UNCHANGED <<docs_built, detectors, scale, lines, show_arrows, auto_arrows>>
         /\ \A built \in BOOLEAN :
              OnExportAnswer(FALSE, built)
                => UNCHANGED <<docs_built, detectors, scale, lines, show_arrows, auto_arrows>>
       ]_vars

\* a report was built after the warning about the scale "1:100" was confirmed,
\* with two devices joined by a visible arrow
ExportGatingWitness ==
  /\ docs_built = 1
  /\ modal = "none"
  /\ ~scale.num
  /\ Len(detectors) = 2
  /\ show_arrows
  /\ Len(auto_arrows) = 1


(***************************************************************************)
(* Auto-addressing                                                         *)
(***************************************************************************)
\* MainWindow._on_device_mode_toggled(True) with the DeviceModeDialog accepted:
\* bus and group are the dialog's texts, stripped by DeviceModeDialog.accept
OnDeviceModeToggled(auto_address, bus, group) ==
  /\ modal = "none"
  /\ add_mode' = TRUE
  /\ SetCursor(IF auto_address THEN start_auto_address(detectors, Strip(bus), Strip(group))
               ELSE stop_auto_address)
  /\ UNCHANGED <<detectors, lines, line_start, scale, calibration_vars, modal, show_arrows,
                 auto_arrows, floorplan, export_arrows, docs_built,
                 measure_mode, measure_points, restore_timers>>

\* forms of the properties dialog: bus "01" with a numeric and with a
\* lettered group
AutoForms ==
  { [bus_number |-> <<"0", "1">>, group |-> <<"2">>, address |-> <<"2">>,
     serial_number |-> <<"S">>, range |-> DefaultRange],
    [bus_number |-> <<"0", "1">>, group |-> <<"A">>, address |-> <<"2">>,
     serial_number |-> <<"S">>, range |-> DefaultRange] }

\* the targets typed into the device mode dialog
AutoBuses == { <<"1">> }

AutoGroups == { <<"2">>, <<"A">> }

AutoDeviceTypes == { "Detector", "IO" }

NextAuto ==
  \/ \E t \in AutoDeviceTypes : OnAddDeviceRequested(<<10, 10>>, t)
  \/ detectors # <<>> /\ RemoveDetector(detectors[Len(detectors)].id)
  \/ \E idx \in 1..MaxDevices, f \in AutoForms : EditDevice(idx, f)
  \/ \E a \in BOOLEAN, b \in AutoBuses, g \in AutoGroups : OnDeviceModeToggled(a, b, g)

SpecAuto == Init /\ [][NextAuto]_vars

\* a device's bus or group d against the target's t: as integers when both
\* parse as integers, by exact string equality otherwise
FieldMatches(d, t) == IF IntOk(d) /\ IntOk(t) THEN IntVal(d) = IntVal(t) ELSE d = t

\* the numeric addresses of the registered devices whose bus and group match
MatchingAddresses(bus, group) ==
  { IntVal(detectors[i].address) :
      i \in { j \in DOMAIN detectors : /\ FieldMatches(detectors[j].bus_number, bus)
                                       /\ FieldMatches(detectors[j].group, group)
                                       /\ IntOk(detectors[j].address) } }

\* 1 + the largest of them, 1 when there is none
ExpectedNext(bus, group) ==
  IF MatchingAddresses(bus, group) = {} THEN 1
  ELSE 1 + CHOOSE m \in MatchingAddresses(bus, group) :
               \A n \in MatchingAddresses(bus, group) : n <= m

\* C10: after start_auto_address(bus, group) the cursor is enabled and its next
\* address is 1 + the largest numeric address among the registered devices
\* whose bus and group match the target, or 1 when there is none; bus and
\* group each match as integers when both sides parse as integers and by exact
\* string equality otherwise
AutoAddressStart ==
  [][ \A b \in AutoBuses, g \in AutoGroups :
        OnDeviceModeToggled(TRUE, b, g)
          => /\ auto_address_enabled'
             /\ next_address' = <<ExpectedNext(b, g)>> ]_vars


\* the device add_detector has just appended
Placed == detectors'[Len(detectors')]

\* C11: a detector placed while the cursor is enabled with next address n takes
\* the bus and group given to start_auto_address and the address str(n), and
\* the next address becomes n + 1 with bus and group of the cursor kept; placing
\* an IO box, removing a device and editing a device leave the cursor as it
\* was, and the IO box placed has no bus, group or address (a step that
\* lengthens the registry by one is a placement, one that changes it without
\* lengthening it is a removal or an edit)
AutoAddressSequence ==
  [][ /\ (Len(detectors') = Len(detectors) + 1 /\ Placed.device_type = "Detector"
            /\ auto_address_enabled)
           => /\ next_address # <<>>
              /\ Placed.bus_number = auto_bus_raw[1]
              /\ Placed.group = auto_group_raw[1]
              /\ Placed.address = IntStr(next_address[1])
              /\ next_address' = <<next_address[1] + 1>>
              /\ UNCHANGED <<auto_address_enabled, auto_bus_raw, auto_group_raw>>
              /\ SubSeq(detectors', 1, Len(detectors)) = detectors
      /\ (Len(detectors') = Len(detectors) + 1 /\ Placed.device_type # "Detector")
           => /\ UNCHANGED cursor_vars
              /\ Placed.bus_number = <<>> /\ Placed.group = <<>> /\ Placed.address = <<>>
      /\ (detectors' # detectors /\ Len(detectors') <= Len(detectors)) => UNCHANGED cursor_vars
    ]_vars

\* started on bus "1", group "2" against an empty registry, three detectors
\* were placed (the second was removed again): they took "1" and "3", next is 4
AutoAddressSequenceWitness ==
  /\ auto_address_enabled
  /\ next_address = <<4>>
  /\ auto_bus_raw = << <<"1">> >> /\ auto_group_raw = << <<"2">> >>
  /\ Len(detectors) = 2
  /\ detectors[1].bus_number = <<"1">> /\ detectors[1].group = <<"2">>
  /\ detectors[1].address = <<"1">>
  /\ detectors[2].bus_number = <<"1">> /\ detectors[2].group = <<"2">>
  /\ detectors[2].address = <<"3">>

\* C12: stop_auto_address leaves the cursor disabled with bus, group and next
\* address cleared; while the cursor is disabled it stays cleared, and a
\* detector placed then has no bus, group or address
AutoAddressStop ==
  /\ [](~auto_address_enabled
          => auto_bus_raw = <<>> /\ auto_group_raw = <<>> /\ next_address = <<>>)
  /\ [][ /\ \A b \in AutoBuses, g \in AutoGroups :
              OnDeviceModeToggled(FALSE, b, g)
                => /\ ~auto_address_enabled'
                   /\ auto_bus_raw' = <<>> /\ auto_group_raw' = <<>> /\ next_address' = <<>>
         /\ (Len(detectors') = Len(detectors) + 1 /\ Placed.device_type = "Detector"
               /\ ~auto_address_enabled)
              => /\ Placed.bus_number = <<>> /\ Placed.group = <<>> /\ Placed.address = <<>>
                 /\ UNCHANGED cursor_vars
       ]_vars

\* after a start and a stop: the detector placed under the cursor keeps its
\* address, the one placed after the stop has none
AutoAddressStopWitness ==
  /\ ~auto_address_enabled
  /\ Len(detectors) = 2
  /\ detectors[1].address = <<"1">> /\ detectors[1].bus_number = <<"1">>
  /\ detectors[2].device_type = "Detector"
  /\ detectors[2].address = <<>> /\ detectors[2].bus_number = <<>>


(***************************************************************************)
(* The full address label                                                  *)
(***************************************************************************)
\* forms of the properties dialog that vary the three address fields: empty,
\* blank, numeric and lettered bus, group "2" and "02", address "15" and " 5"
LabelForms ==
  { [bus_number |-> b, group |-> g, address |-> a, serial_number |-> <<"S">>,
     range |-> DefaultRange] :
       b \in { <<>>, <<" ">>, <<"1">>, <<"A">> },
       g \in { <<"2">>, <<"0", "2">> },
       a \in { <<"1", "5">>, <<" ", "5">> } }

\* a saved project: a detector addressed 1, 2, 15 and an IO box without address
LabelDocument ==
  [ plan      |-> <<>>,
    scale     |-> <<>>,
    detectors |-> << [x |-> 0, y |-> 0, device_type |-> "Detector", bus_number |-> <<"1">>,
                      group |-> <<"2">>, address |-> <<"1", "5">>, serial_number |-> <<"A">>,
                      range |-> DefaultRange],
                     [x |-> 40, y |-> 0, device_type |-> "IO", bus_number |-> <<>>,
                      group |-> <<>>, address |-> <<>>, serial_number |-> <<"B">>,
                      range |-> 0] >>,
    lines     |-> <<>> ]

NextLabel ==
  \/ OpenProject(LabelDocument)
  \/ \E idx \in DOMAIN detectors, f \in LabelForms : EditDevice(idx, f)

SpecLabel == Init /\ [][NextLabel]_vars

\* the text is empty or made of blanks only
Blank(s) == \A k \in DOMAIN s : s[k] = " "

\* C13: for every registered device, get_full_address_label() is the empty
\* string exactly when bus, group or address is empty once blanks around it
\* are taken off
LabelSuppression ==
  \A i \in DOMAIN detectors :
    (get_full_address_label(detectors[i]) = <<>>)
      <=> \/ Blank(detectors[i].bus_number)
          \/ Blank(detectors[i].group)
          \/ Blank(detectors[i].address)

\* one device has a blank bus and no label, the other has all three fields
\* and a label
LabelSuppressionWitness ==
  /\ Len(detectors) = 2
  /\ detectors[1].bus_number = <<" ">>
  /\ detectors[1].address = <<"1", "5">>
  /\ get_full_address_label(detectors[1]) = <<>>
  /\ detectors[2].bus_number = <<"A">>
  /\ get_full_address_label(detectors[2]) # <<>>

\* C14: for a device whose bus, group and address are all non-empty, the full
\* address label is the bus zero-padded to two digits, a hyphen, the group
\* exactly as stored, and the address zero-padded to three digits
LabelFormatVerbatim ==
  \A i \in DOMAIN detectors :
    ~(Blank(detectors[i].bus_number) \/ Blank(detectors[i].group) \/ Blank(detectors[i].address))
      => get_full_address_label(detectors[i])
           = ZeroFill(Strip(detectors[i].bus_number), 2) \o <<"-">> \o detectors[i].group
               \o ZeroFill(Strip(detectors[i].address), 3)

\* C15 as stated: a device with bus "1", group "2" and address "15" has the
\* full address label "01-215"
LabelExample ==
  \A i \in DOMAIN detectors :
    (/\ detectors[i].bus_number = <<"1">>
     /\ detectors[i].group = <<"2">>
     /\ detectors[i].address = <<"1", "5">>)
      => get_full_address_label(detectors[i]) = <<"0", "1", "-", "2", "1", "5">>

\* C15: a device with bus "1", group "2" and address "15" has the full address
\* label "01-2015": the address is padded to three digits
LabelExamplePadded ==
  \A i \in DOMAIN detectors :
    (/\ detectors[i].bus_number = <<"1">>
     /\ detectors[i].group = <<"2">>
     /\ detectors[i].address = <<"1", "5">>)
      => get_full_address_label(detectors[i]) = <<"0", "1", "-", "2", "0", "1", "5">>

\* an IO box edited to bus "1", group "2", address "15"
LabelExampleWitness ==
  /\ Len(detectors) = 2
  /\ detectors[2].device_type = "IO"
  /\ detectors[2].bus_number = <<"1">>
  /\ detectors[2].group = <<"2">>
  /\ detectors[2].address = <<"1", "5">>
  /\ get_full_address_label(detectors[2]) = <<"0", "1", "-", "2", "0", "1", "5">>


(***************************************************************************)
(* Connections                                                             *)
(***************************************************************************)
\* the connections and the pending start become those of r
SetLines(r) ==
  /\ lines' = r.lines
  /\ line_start' = r.line_start

\* handle_line_click(d) for the registered device at index idx
HandleLineClick(idx) ==
  /\ modal = "none"
  /\ idx \in DOMAIN detectors
  /\ (line_start # <<>> /\ line_start[1].id # detectors[idx].id) => Len(lines) < MaxLines
  /\ SetLines(handle_line_click(lines, line_start, detectors[idx]))
  /\ UNCHANGED <<detectors, scale, calibration_vars, modal, show_arrows, auto_arrows,
                 cursor_vars, floorplan, export_arrows, docs_built,
                 view_vars, restore_timers>>

\* add_line(s, e) for the registered devices at indexes i and j
AddLine(i, j) ==
  /\ modal = "none"
  /\ i \in DOMAIN detectors /\ j \in DOMAIN detectors
  /\ Len(lines) < MaxLines
  /\ lines' = add_line(lines, detectors[i], detectors[j])
  /\ UNCHANGED <<detectors, line_start, scale, calibration_vars, modal, show_arrows,
                 auto_arrows, cursor_vars, floorplan, export_arrows, docs_built,
                 view_vars, restore_timers>>

\* a saved project: three devices in a row, the middle one connected to both
LinesDocument ==
  [ plan      |-> <<>>,
    scale     |-> <<>>,
    detectors |-> << [x |-> 0, y |-> 0, device_type |-> "Detector", bus_number |-> <<>>,
                      group |-> <<>>, address |-> <<>>, serial_number |-> <<"A">>,
                      range |-> DefaultRange],
                     [x |-> 40, y |-> 0, device_type |-> "IO", bus_number |-> <<>>,
                      group |-> <<>>, address |-> <<>>, serial_number |-> <<"B">>,
                      range |-> 0],
                     [x |-> 80, y |-> 0, device_type |-> "Detector", bus_number |-> <<>>,
                      group |-> <<>>, address |-> <<>>, serial_number |-> <<"A">>,
                      range |-> DefaultRange] >>,
    lines     |-> << <<0, 1>>, <<1, 2>> >> ]

NextLines ==
  \/ \E id \in 1..IdLimit : RemoveDetector(id)
  \/ \E idx \in DOMAIN detectors : HandleLineClick(idx)
  \/ \E i \in DOMAIN detectors, j \in DOMAIN detectors : AddLine(i, j)
  \/ lines = <<>> /\ OpenProject(LinesDocument)

SpecLines == Init /\ [][NextLines]_vars

\* the identities of the registered devices
RegisteredIds == { detectors[i].id : i \in DOMAIN detectors }

\* C16: both end points of every connection in self.lines are devices of the
\* registry
LinesLive ==
  \A k \in DOMAIN lines : lines[k].start \in RegisteredIds /\ lines[k].end \in RegisteredIds

\* a device record without its colour
Uncoloured(d) == [d EXCEPT !.brush = "none"]

\* the connections that have the device as an end point
LinesAt(id) == { k \in DOMAIN lines : lines[k].start = id \/ lines[k].end = id }

\* C17: remove_detector(d) for a registered d takes d out of the registry and
\* deletes exactly the connections that have d as an end point: the devices
\* left keep their order and their fields, the connections left keep theirs,
\* scale and cursor are as before; for a device that is not registered it
\* changes nothing
RemoveEffect ==
  [][ \A id \in 1..IdLimit :
        RemoveDetector(id)
          => IF id \notin RegisteredIds
             THEN UNCHANGED vars
             ELSE /\ [i \in DOMAIN detectors' |-> Uncoloured(detectors'[i])]
                       = [i \in 1..(Len(detectors) - 1) |->
                            Uncoloured(detectors[IF i < IndexOf(detectors, id)
                                                 THEN i ELSE i + 1])]
                  /\ lines' = SelectSeq(lines, LAMBDA ln : ln.start # id /\ ln.end # id)
                  /\ Len(lines') = Len(lines) - Cardinality(LinesAt(id))
                  /\ UNCHANGED <<scale, cursor_vars, line_start>> ]_vars

\* the third device of the loaded project was removed: its connection went,
\* the connection of the two devices left is still there
RemoveEffectWitness ==
  /\ Len(detectors) = 2
  /\ detectors[1].x = 0 /\ detectors[2].x = 40
  /\ Len(lines) = 1
  /\ lines[1].start = detectors[1].id /\ lines[1].end = detectors[2].id

(***************************************************************************)
(* Save and load (to_dict, from_dict)                                      *)
(***************************************************************************)
\* the device entry to_dict writes for d: getattr(d, 'range', 0) and
\* getattr(d, 'paired_sn', '') for a device without the attribute
DeviceEntry(d) ==
  [ x |-> d.x, y |-> d.y, device_type |-> d.device_type,
    bus_number |-> d.bus_number, group |-> d.group, address |-> d.address,
    serial_number |-> d.serial_number,
    range |-> IF d.range = <<>> THEN 0 ELSE d.range[1],
    paired_sn |-> IF d.paired_sn = <<>> THEN <<>> ELSE d.paired_sn[1] ]

RECURSIVE IndexPairs(_, _)
\* "Serialize lines as detector index pairs": a connection with an end that
\* self.detectors.index does not find is left out
IndexPairs(ds, lns) ==
  IF lns = <<>> THEN <<>>
  ELSE IF IndexOf(ds, Head(lns).start) = 0 \/ IndexOf(ds, Head(lns).end) = 0
       THEN IndexPairs(ds, Tail(lns))
       ELSE << <<IndexOf(ds, Head(lns).start) - 1, IndexOf(ds, Head(lns).end) - 1>> >>
            \o IndexPairs(ds, Tail(lns))

\* to_dict: the document of the current project
to_dict(ds, lns, sc, fp) ==
  [ plan      |-> IF fp = NoPlan THEN <<>> ELSE <<fp>>,
    scale     |-> <<sc>>,
    detectors |-> [ i \in DOMAIN ds |-> DeviceEntry(ds[i]) ],
    lines     |-> IndexPairs(ds, lns) ]

\* the project is saved and the saved document opened again:
\* from_dict(to_dict()), the cursor kept within MaxAddress
Reopen ==
  /\ (auto_address_enabled /\ next_address # <<>>)
       => next_address[1] + Len(detectors) <= MaxAddress + 1
  /\ OpenProject(to_dict(detectors, lines, scale, floorplan))

\* forms of the properties dialog with and without a paired serial number
RoundTripForms ==
  { [bus_number |-> <<"1">>, group |-> <<"2">>, address |-> <<"5">>,
     serial_number |-> <<"A">>, range |-> DefaultRange, paired_sn |-> p] :
    p \in {<<>>, <<"P">>} }

RoundTripDeviceTypes == {"Detector", "IO", "CallPoint"}

NextRoundTrip ==
  \/ \E t \in RoundTripDeviceTypes : OnAddDeviceRequested(<<60 * Len(detectors), 0>>, t)
  \/ detectors # <<>> /\ RemoveDetector(detectors[Len(detectors)].id)
  \/ \E idx \in DOMAIN detectors, f \in RoundTripForms : EditDevice(idx, f)
  \/ \E a \in BOOLEAN : OnDeviceModeToggled(a, <<"1">>, <<"2">>)
  \/ lines = <<>> /\ Len(detectors) >= 2 /\ AddLine(1, Len(detectors))
  \/ Reopen

SpecRoundTrip == Init /\ [][NextRoundTrip]_vars

\* C18: saving a project and loading the saved document, into a controller
\* in any state, gives a project that saves to the same document: the same
\* devices in the same order with the same serialized fields for every device
\* kind, the same scale and the same connection index pairs
RoundTrip ==
  [][Reopen => to_dict(detectors', lines', scale', floorplan')
               = to_dict(detectors, lines, scale, floorplan)]_vars

(***************************************************************************)
(* Loading a malformed document                                            *)
(***************************************************************************)
\* a document whose entries lack fields: the first has a position only, the
\* second a device type only
SparseDocument ==
  [ plan      |-> <<>>,
    scale     |-> <<>>,
    detectors |-> << [x |-> 40, y |-> 0], [device_type |-> "IO"] >>,
    lines     |-> << <<0, 1>> >> ]

\* a document whose first entry has the text "a" for x; the second and third
\* entries are connected
UnparseableDocument ==
  [ plan      |-> <<>>,
    scale     |-> <<>>,
    detectors |-> << [x_text |-> <<"a">>, y |-> 0, device_type |-> "Detector",
                      serial_number |-> <<"A">>],
                     [x |-> 40, y |-> 0, device_type |-> "IO", serial_number |-> <<"B">>],
                     [x |-> 80, y |-> 0, device_type |-> "Detector",
                      serial_number |-> <<"C">>, range |-> DefaultRange] >>,
    lines     |-> << <<1, 2>> >> ]

MalformedDocuments == {SparseDocument, UnparseableDocument}

\* open_project on a malformed document, the cursor kept within MaxAddress
OpenMalformed(doc) ==
  /\ (auto_address_enabled /\ next_address # <<>>)
       => next_address[1] + Len(doc.detectors) <= MaxAddress + 1
  /\ OpenProject(doc)

NextMalformed ==
  \/ \E doc \in MalformedDocuments : OpenMalformed(doc)
  \/ \E idx \in DOMAIN detectors, f \in RoundTripForms \cup AutoForms : EditDevice(idx, f)
  \/ detectors # <<>> /\ RemoveDetector(detectors[Len(detectors)].id)
  \/ \E a \in BOOLEAN : OnDeviceModeToggled(a, <<"1">>, <<"2">>)

SpecMalformed == Init /\ [][NextMalformed]_vars

\* the device d carries the fields of the entry e, the missing or unparseable
\* ones empty or zero
LoadedFrom(d, e) ==
  /\ d.x = EntryGet(e, "x", 0) /\ d.y = EntryGet(e, "y", 0)
  /\ d.device_type = EntryGet(e, "device_type", "Detector")
  /\ d.bus_number = EntryGet(e, "bus_number", <<>>)
  /\ d.group = EntryGet(e, "group", <<>>)
  /\ d.address = EntryGet(e, "address", <<>>)
  /\ d.serial_number = EntryGet(e, "serial_number", <<>>)
  /\ d.range # <<>> => d.range[1] = EntryGet(e, "range", 0)

\* the registry ds and connections lns are those of the document doc: one
\* device per entry, each connection between the devices at its two indexes
LoadedAll(doc, ds, lns) ==
  /\ Len(ds) = Len(doc.detectors)
  /\ \A i \in DOMAIN ds : LoadedFrom(ds[i], doc.detectors[i])
  /\ Len(lns) = Len(doc.lines)
  /\ \A k \in DOMAIN lns : /\ lns[k].start = ds[doc.lines[k][1] + 1].id
                           /\ lns[k].end = ds[doc.lines[k][2] + 1].id

\* C19: loading a document with malformed device entries never aborts; an
\* entry whose fields are missing or unparseable is still loaded with those
\* fields empty or zero, so the registry has one device per entry and every
\* connection index pair joins the devices created from the entries at those
\* indexes
PermissiveLoad ==
  [][\A doc \in MalformedDocuments :
       OpenProject(doc) => LoadedAll(doc, detectors', lines')]_vars

(***************************************************************************)
(* Address-order arrows                                                    *)
(***************************************************************************)
\* forms of the properties dialog: group "2" with the address empty, numeric
\* ("2" and "10", the latter on bus "01") and lettered, and group "A"
ArrowForms ==
  { [bus_number |-> IF a = <<"1", "0">> THEN <<"0", "1">> ELSE <<"1">>, group |-> <<"2">>,
     address |-> a, serial_number |-> <<"S">>, range |-> DefaultRange] :
    a \in {<<>>, <<"2">>, <<"1", "0">>, <<"B">>} }
  \cup { [bus_number |-> <<"1">>, group |-> <<"A">>, address |-> <<"2">>,
          serial_number |-> <<"S">>, range |-> DefaultRange] }

\* a saved project: three detectors of one group, the first and the third at
\* the same position
ArrowsDocument ==
  [ plan      |-> <<>>,
    scale     |-> <<>>,
    detectors |-> << [x |-> 0, y |-> 0, device_type |-> "Detector", bus_number |-> <<"1">>,
                      group |-> <<"2">>, address |-> <<"2">>, serial_number |-> <<"S">>,
                      range |-> DefaultRange],
                     [x |-> 60, y |-> 0, device_type |-> "Detector", bus_number |-> <<"1">>,
                      group |-> <<"2">>, address |-> <<"B">>, serial_number |-> <<"S">>,
                      range |-> DefaultRange],
                     [x |-> 0, y |-> 0, device_type |-> "Detector",
                      bus_number |-> <<"0", "1">>, group |-> <<"2">>,
                      address |-> <<"1", "0">>, serial_number |-> <<"S">>,
                      range |-> DefaultRange] >>,
    lines     |-> <<>> ]

NextArrows ==
  \/ OnAddDeviceRequested(<<0, 0>>, "Detector")
  \/ detectors # <<>> /\ RemoveDetector(detectors[Len(detectors)].id)
  \/ \E idx \in DOMAIN detectors, f \in ArrowForms : EditDevice(idx, f)
  \/ OpenProject(ArrowsDocument)

SpecArrows == Init /\ [][NextArrows]_vars

\* the registered devices whose bus, group and address are all non-empty
Addressed ==
  { i \in DOMAIN detectors : /\ Strip(detectors[i].bus_number) # <<>>
                             /\ Strip(detectors[i].group) # <<>>
                             /\ Strip(detectors[i].address) # <<>> }

\* the texts s and t name the same bus or group: equal as numbers when both
\* are numbers, equal as texts otherwise
SameField(s, t) ==
  IF IntOk(Strip(s)) /\ IntOk(Strip(t)) THEN IntVal(Strip(s)) = IntVal(Strip(t))
  ELSE Strip(s) = Strip(t)

\* the devices at indexes i and j are of one (bus, group)
SameGroup(i, j) ==
  /\ SameField(detectors[i].bus_number, detectors[j].bus_number)
  /\ SameField(detectors[i].group, detectors[j].group)

\* the address s sorts before t: numeric ascending, all numeric before any
\* non-numeric, non-numeric lexicographic
AddressBefore(s, t) ==
  IF IntOk(Strip(s)) /\ IntOk(Strip(t)) THEN IntVal(Strip(s)) < IntVal(Strip(t))
  ELSE IF IntOk(Strip(s)) THEN TRUE
  ELSE IF IntOk(Strip(t)) THEN FALSE
  ELSE StrLess(Strip(s), Strip(t))

\* the device at i comes before the one at j in their sorted group, devices of
\* equal address in registry order
Precedes(i, j) ==
  \/ AddressBefore(detectors[i].address, detectors[j].address)
  \/ ~AddressBefore(detectors[j].address, detectors[i].address) /\ i < j

\* the device at j is the successor of the device at i in their sorted group
Successor(i, j) ==
  /\ i \in Addressed /\ j \in Addressed /\ i # j
  /\ SameGroup(i, j)
  /\ Precedes(i, j)
  /\ ~\E k \in Addressed \ {i, j} : SameGroup(i, k) /\ Precedes(i, k) /\ Precedes(k, j)

\* the devices at i and j are at different positions
Apart(i, j) == detectors[i].x # detectors[j].x \/ detectors[i].y # detectors[j].y

\* the arrows as pairs of device identities
ArrowPairs == { <<auto_arrows[a].start, auto_arrows[a].end>> : a \in DOMAIN auto_arrows }

\* the arrows that start at a device of the group of the device at i
ArrowsOfGroup(i) ==
  { a \in DOMAIN auto_arrows :
      \E j \in Addressed : SameGroup(i, j) /\ auto_arrows[a].start = detectors[j].id }

\* every arrow joins two registered devices of one group with all fields set
ArrowsWithinGroups ==
  \A a \in DOMAIN auto_arrows :
    \E i \in Addressed, j \in Addressed :
      /\ SameGroup(i, j)
      /\ auto_arrows[a].start = detectors[i].id /\ auto_arrows[a].end = detectors[j].id

\* C20: after every add, remove, properties edit or load the arrows are
\* exactly the links from each device with bus, group and address set to its
\* successor in its (bus, group) group sorted by address; a group of k devices
\* has k-1 arrows and no arrow leaves a group or involves a device with an
\* empty field
ArrowsDerived ==
  /\ ArrowPairs = { <<detectors[i].id, detectors[j].id>> :
                      <<i, j>> \in { p \in Addressed \X Addressed : Successor(p[1], p[2]) } }
  /\ \A i \in Addressed :
       Cardinality(ArrowsOfGroup(i)) = Cardinality({ j \in Addressed : SameGroup(i, j) }) - 1
  /\ ArrowsWithinGroups

\* C20, with the successor at the same position left out: the arrows are
\* exactly the links from each device to its successor in its sorted group
\* when the two are at different positions, one arrow per such link
ArrowsDerivedApart ==
  /\ ArrowPairs = { <<detectors[i].id, detectors[j].id>> :
                      <<i, j>> \in { p \in Addressed \X Addressed :
                                       Successor(p[1], p[2]) /\ Apart(p[1], p[2]) } }
  /\ Len(auto_arrows) = Cardinality(ArrowPairs)
  /\ ArrowsWithinGroups

\* three devices of one group, registered in an order that is not the address
\* order, the first two of the sorted group at one position: one arrow only
ArrowsDerivedWitness ==
  /\ Len(detectors) = 3
  /\ Addressed = {1, 2, 3}
  /\ SameGroup(1, 2) /\ SameGroup(2, 3)
  /\ Successor(1, 3) /\ Successor(3, 2)
  /\ ~Apart(1, 3)
  /\ ArrowPairs = {<<detectors[3].id, detectors[2].id>>}

(***************************************************************************)
(* set_scale on its inputs                                                 *)
(***************************************************************************)
\* the page of a PDF rendered as floor plan: the page rect in points and the
\* pixel width of the rendered pixmap
PdfPlan(rect_w, rect_h, pixel_width) ==
  [item |-> TRUE, is_pdf |-> TRUE, pdf_page |-> <<0>>,
   rect_w |-> rect_w, rect_h |-> rect_h, pixel_width |-> pixel_width]

\* floor plans: an image, A4 upright, A4 and A3 on their side, a US letter
\* page, and an A4 page whose pixmap has no width
ScalePlans ==
  { ImagePlan, PdfPlan(595, 842, 210), PdfPlan(842, 595, 210), PdfPlan(1191, 842, 297),
    PdfPlan(612, 792, 210), PdfPlan(595, 842, 0) }

\* texts typed in the "Drawing Scale" prompt: ratios bare and padded, a
\* number, and padded texts that are neither
ScaleInputs ==
  { <<"1", ":", "1", "0">>, <<" ", "1", ":", "5", "0">>, <<"0", ".", "0", "1">>,
    <<"a", "b", " ">>, <<"1", ":", "x", " ">> }

\* a saved project with a numeric scale and one detector
ScaleDocument ==
  [ plan      |-> <<>>,
    scale     |-> <<NumScale(Ratio(1, 50))>>,
    detectors |-> << [x |-> 0, y |-> 0, device_type |-> "Detector", bus_number |-> <<"1">>,
                      group |-> <<"2">>, address |-> <<"1">>, serial_number |-> <<"A">>,
                      range |-> 30] >>,
    lines     |-> <<>> ]

NextScale ==
  \/ \E plan \in ScalePlans, t \in ScaleInputs : NewProject(<<plan>>, t)
  \/ \E t \in ScaleInputs : NewProject(<<>>, t)
  \/ \E idx \in DOMAIN detectors : EditDevice(idx, SpacingForm)
  \/ OpenProject(ScaleDocument)

SpecScale == Init /\ [][NextScale]_vars

\* the text is a ratio "1:N" with a number N
IsRatio(text) == IsRatioText(text) /\ FloatOk(SubSeq(text, 3, Len(text)))

\* the ratio cannot be resolved on the plan: not from a PDF, a page of no
\* recognized paper size, or no pixel width
Unresolvable(fp) ==
  \/ ~CanAutoCalibrate(fp)
  \/ get_pdf_page_physical_size(fp.rect_w, fp.rect_h) = <<>>
  \/ fp.pixel_width <= 0

\* the plan in place when set_scale runs in new_project
PlanAfter(plan) == IF plan = <<>> THEN floorplan ELSE plan[1]

\* what the claim of set_scale says of the string value, kept is the text
\* said to be stored
ScaleStored(plan, value, kept) ==
  IF IsRatio(Strip(value))
  THEN Unresolvable(PlanAfter(plan)) => scale' = TextScale(kept) /\ detectors' = detectors
  ELSE IF FloatOk(Strip(value))
       THEN scale' = NumScale(FloatVal(Strip(value)))
       ELSE scale' = TextScale(kept) /\ detectors' = detectors

\* the plans new_project may have loaded, <<>> when load_floor_plan raised
PlanChoices == { <<plan>> : plan \in ScalePlans } \cup { <<>> }

\* C21 as stated: a number is stored unchanged; a ratio "1:N" that cannot be
\* resolved is stored as the ratio text; any other string is stored as its
\* float value when it parses and as the text itself otherwise; when a text is
\* stored no device changes
ScaleInputHandling ==
  [][/\ OpenProject(ScaleDocument) => scale' = ScaleDocument.scale[1]
     /\ \A plan \in PlanChoices, t \in ScaleInputs :
          NewProject(plan, t) => ScaleStored(plan, t, t)]_vars

\* C21, the stored text being the input without its surrounding whitespace
ScaleInputHandlingStripped ==
  [][/\ OpenProject(ScaleDocument) => scale' = ScaleDocument.scale[1]
     /\ \A plan \in PlanChoices, t \in ScaleInputs :
          NewProject(plan, t) => ScaleStored(plan, t, Strip(t))]_vars

\* " 1:50" was entered on an image plan with a detector that has a range
\* circle: the ratio is stored without the blank and the circle is still there
ScaleInputHandlingWitness ==
  /\ scale = TextScale(<<"1", ":", "5", "0">>)
  /\ floorplan = ImagePlan
  /\ detectors # <<>> /\ detectors[1].range_circle # <<>>

\* the paper whose size the page rect has, in either orientation
PaperOf(fp) ==
  PaperSizes[CHOOSE i \in DOMAIN PaperSizes :
               /\ PaperMatches(PaperSizes[i], fp.rect_w, fp.rect_h)
               /\ \A j \in 1..(i - 1) : ~PaperMatches(PaperSizes[j], fp.rect_w, fp.rect_h)]

\* the horizontal dimension of the page in millimeters: the paper's short side
\* for an upright page, its long side for a page on its side
HorizontalMm(fp) ==
  IF Abs(fp.rect_w - PaperOf(fp).pw) < 5 /\ Abs(fp.rect_h - PaperOf(fp).ph) < 5
  THEN PaperOf(fp).mm_w
  ELSE PaperOf(fp).mm_h

\* C22: set_scale("1:N") on a plan from a PDF page of a recognized paper
\* size, upright or on its side, with pixel width W > 0 sets the scale to
\* (horizontal dimension of the page in meters * N) / W
RatioResolution ==
  [][\A plan \in ScalePlans, t \in ScaleInputs :
       (NewProject(<<plan>>, t) /\ IsRatio(Strip(t)) /\ ~Unresolvable(plan))
         => scale' = NumScale(RealDiv(RealMul(Ratio(HorizontalMm(plan), 1000),
                                              FloatVal(SubSeq(Strip(t), 3, Len(Strip(t))))),
                                      Ratio(plan.pixel_width, 1)))]_vars

\* C23: a detector has a range circle only if the scale is resolved (a
\* positive number), and the circle's radius in pixels is the detector's
\* stored range divided by the current meters per pixel
RangeCircles ==
  \A i \in DOMAIN detectors :
    detectors[i].range_circle # <<>>
      => /\ ScaleResolved(scale)
         /\ detectors[i].range_circle[1] = RealDiv(Ratio(detectors[i].range[1], 10), scale.val)

(***************************************************************************)
(* Clicks on the plan (FloorPlanView.mousePressEvent)                      *)
(***************************************************************************)
\* MainWindow._on_add_device_toggled: view.set_add_mode(checked)
OnAddDeviceToggled(checked) ==
  /\ modal = "none"
  /\ add_mode' = checked
  /\ UNCHANGED <<detectors, lines, line_start, scale, calibration_vars, modal, show_arrows,
                 auto_arrows, cursor_vars, floorplan, export_arrows, docs_built,
                 measure_mode, measure_points, restore_timers>>

\* start_measure_mode
StartMeasureMode ==
  /\ modal = "none"
  /\ measure_mode' = TRUE
  /\ measure_points' = <<>>
  /\ UNCHANGED <<detectors, lines, line_start, scale, calibration_vars, modal, show_arrows,
                 auto_arrows, cursor_vars, floorplan, export_arrows, docs_built,
                 add_mode, restore_timers>>

\* stop_measure_mode
StopMeasureMode ==
  /\ modal = "none"
  /\ measure_mode' = FALSE
  /\ measure_points' = <<>>
  /\ UNCHANGED <<detectors, lines, line_start, scale, calibration_vars, modal, show_arrows,
                 auto_arrows, cursor_vars, floorplan, export_arrows, docs_built,
                 add_mode, restore_timers>>

\* _on_measure_point: a third point starts the measurement anew
OnMeasurePoint(pos) ==
  /\ modal = "none"
  /\ measure_points' = IF ~measure_mode THEN measure_points
                       ELSE IF Len(measure_points) >= 2 THEN <<pos>>
                       ELSE Append(measure_points, pos)
  /\ UNCHANGED <<detectors, lines, line_start, scale, calibration_vars, modal, show_arrows,
                 auto_arrows, cursor_vars, floorplan, export_arrows, docs_built,
                 add_mode, measure_mode, restore_timers>>

\* FloorPlanView.mousePressEvent for a left click without modifiers at pos:
\* the first of add_mode, calibrate_mode and measure_mode that is set decides
\* which signal is emitted; view.calibrate_mode is set and cleared together
\* with self._calibrating. With no mode set the click pans the view.
MousePress(pos, device_type) ==
  IF add_mode THEN OnAddDeviceRequested(pos, device_type)
  ELSE IF calibrating THEN OnCalibrationPoint(pos)
  ELSE IF measure_mode THEN OnMeasurePoint(pos)
  ELSE FALSE

\* positions clicked on the plan, 50 px apart
ClickPositions == { <<0, 0>>, <<30, 40>> }

\* the answers of the distance prompt: 2.0 m, and a cancelled prompt
ClickAnswers == { [ok |-> TRUE, meters |-> 20], [ok |-> FALSE, meters |-> 10] }

NextClicks ==
  \/ \E checked \in BOOLEAN : OnAddDeviceToggled(checked)
  \/ StartCalibration
  \/ StartMeasureMode
  \/ StopMeasureMode
  \/ \E pos \in ClickPositions : MousePress(pos, "Detector")
  \/ \E ans \in ClickAnswers : OnDistanceInput(ans)

SpecClicks == Init /\ [][NextClicks]_vars

\* C24: while calibration is active with fewer than two points, every
\* unmodified left click on the plan is appended as a calibration point and
\* adds no device, whichever of add-device and measure mode are enabled
CalibrationClicks ==
  [][\A pos \in ClickPositions :
       (MousePress(pos, "Detector") /\ calibrating /\ Len(calibration_points) < 2)
         => /\ calibration_points' = Append(calibration_points, pos)
            /\ detectors' = detectors]_vars

(***************************************************************************)
(* Highlighting a found device (highlight_detector)                        *)
(***************************************************************************)
\* highlight_detector(detector) for the device at index idx, as _on_find_device
\* calls it: orig_brush is read, the brush set to yellow and _restore scheduled
HighlightDetector(idx) ==
  /\ modal = "none"
  /\ idx \in DOMAIN detectors
  /\ Len(restore_timers) < MaxTimers
  /\ restore_timers' = Append(restore_timers,
                              [id |-> detectors[idx].id, orig_brush |-> detectors[idx].brush])
  /\ detectors' = [detectors EXCEPT ![idx].brush = "yellow"]
  /\ UNCHANGED <<lines, line_start, scale, calibration_vars, modal, show_arrows, auto_arrows,
                 cursor_vars, floorplan, export_arrows, docs_built, view_vars>>

\* the oldest pending single-shot timer fires (all have the same duration):
\* _restore sets the brush it saved on its device, registered or not
RestoreTimerFires ==
  /\ restore_timers # <<>>
  /\ restore_timers' = Tail(restore_timers)
  /\ detectors' = [ i \in DOMAIN detectors |->
                      IF detectors[i].id = Head(restore_timers).id
                      THEN [detectors[i] EXCEPT !.brush = Head(restore_timers).orig_brush]
                      ELSE detectors[i] ]
  /\ UNCHANGED <<lines, line_start, scale, calibration_vars, modal, show_arrows, auto_arrows,
                 cursor_vars, floorplan, export_arrows, docs_built, view_vars>>

\* forms of the properties dialog with two serials
HighlightForms ==
  { [bus_number |-> <<"1">>, group |-> <<"2">>, address |-> <<"5">>, serial_number |-> sn,
     range |-> DefaultRange] : sn \in {<<"A">>, <<"B">>} }

\* a saved project: two detectors with the serials A and B
HighlightDocument ==
  [ plan      |-> <<>>,
    scale     |-> <<>>,
    detectors |-> << [x |-> 0, y |-> 0, device_type |-> "Detector", serial_number |-> <<"A">>,
                      range |-> DefaultRange],
                     [x |-> 60, y |-> 0, device_type |-> "Detector", serial_number |-> <<"B">>,
                      range |-> DefaultRange] >>,
    lines     |-> <<>> ]

NextHighlight ==
  \/ OpenProject(HighlightDocument)
  \/ \E idx \in DOMAIN detectors, f \in HighlightForms : EditDevice(idx, f)
  \/ detectors # <<>> /\ RemoveDetector(detectors[Len(detectors)].id)
  \/ \E idx \in DOMAIN detectors : HighlightDetector(idx)
  \/ RestoreTimerFires

SpecHighlight == Init /\ [][NextHighlight]_vars

\* C26: once every pending restore timer has fired, each device has the
\* colour its serial number gives it among the current serial numbers, never
\* the highlight colour and never a colour an intervening change made stale
HighlightRevert ==
  restore_timers = <<>>
    => \A i \in DOMAIN detectors :
         detectors[i].brush = update_detector_colors(detectors)[i].brush

(***************************************************************************)
(* Moving a device (SmokeDetector.itemChange)                              *)
(***************************************************************************)
\* pos() of the device with this identity; a device that is no longer
\* registered is where the line item last had it
PosX(ds, id, x) == IF IndexOf(ds, id) = 0 THEN x ELSE ds[IndexOf(ds, id)].x

PosY(ds, id, y) == IF IndexOf(ds, id) = 0 THEN y ELSE ds[IndexOf(ds, id)].y

\* SmokeDetector.itemChange for ItemPositionChange on the device id: every
\* connection of the device gets setLine(start.pos(), end.pos()). The
\* notification comes before the position is set, so ds holds the positions
\* from before the move.
itemChange(lns, ds, id) ==
  [ k \in DOMAIN lns |->
      IF lns[k].start = id \/ lns[k].end = id
      THEN [lns[k] EXCEPT !.x1 = PosX(ds, lns[k].start, lns[k].x1),
                          !.y1 = PosY(ds, lns[k].start, lns[k].y1),
                          !.x2 = PosX(ds, lns[k].end, lns[k].x2),
                          !.y2 = PosY(ds, lns[k].end, lns[k].y2)]
      ELSE lns[k] ]

\* the device at index idx is dragged to pos. Only SmokeDetector overrides
\* itemChange; no device sets ItemSendsGeometryChanges, the flag under which
\* the scene sends ItemPositionChange, so notified covers both a scene that
\* sends the notification and one that does not. Nothing updates the arrows.
MoveDevice(idx, pos, notified) ==
  /\ modal = "none"
  /\ idx \in DOMAIN detectors
  /\ pos # <<detectors[idx].x, detectors[idx].y>>
  /\ detectors' = [detectors EXCEPT ![idx].x = pos[1], ![idx].y = pos[2]]
  /\ lines' = IF notified /\ detectors[idx].device_type = "Detector"
              THEN itemChange(lines, detectors, detectors[idx].id)
              ELSE lines
  /\ UNCHANGED <<line_start, scale, calibration_vars, modal, show_arrows, auto_arrows,
                 cursor_vars, floorplan, export_arrows, docs_built, view_vars,
                 restore_timers>>

\* a saved project: a detector and an IO box of one group, connected
MovesDocument ==
  [ plan      |-> <<>>,
    scale     |-> <<>>,
    detectors |-> << [x |-> 0, y |-> 0, device_type |-> "Detector", bus_number |-> <<"1">>,
                      group |-> <<"2">>, address |-> <<"1">>, serial_number |-> <<"A">>,
                      range |-> DefaultRange],
                     [x |-> 40, y |-> 0, device_type |-> "IO", bus_number |-> <<"1">>,
                      group |-> <<"2">>, address |-> <<"2">>, serial_number |-> <<"B">>] >>,
    lines     |-> << <<0, 1>> >> ]

MovePositions == { <<0, 0>>, <<40, 0>>, <<0, 30>> }

NextMoves ==
  \/ OpenProject(MovesDocument)
  \/ \E idx \in DOMAIN detectors, pos \in MovePositions, notified \in BOOLEAN :
       MoveDevice(idx, pos, notified)
  \/ \E idx \in DOMAIN detectors : EditDevice(idx, SpacingForm)
  \/ \E checked \in BOOLEAN : OnShowArrowsToggled(checked)

SpecMoves == Init /\ [][NextMoves]_vars

\* the device at index i has moved in this step
Moved(i) ==
  /\ i \in DOMAIN detectors /\ i \in DOMAIN detectors'
  /\ detectors'[i].id = detectors[i].id
  /\ <<detectors'[i].x, detectors'[i].y>> # <<detectors[i].x, detectors[i].y>>

\* C27: after a device of any kind is moved, every connection and every
\* address arrow attached to it has its end points at the current positions
\* of its two devices
LinksFollowMoves ==
  [][\A i \in DOMAIN detectors :
       Moved(i)
         => /\ \A k \in DOMAIN lines' :
                 (lines'[k].start = detectors[i].id \/ lines'[k].end = detectors[i].id)
                   => /\ lines'[k].x1 = PosX(detectors', lines'[k].start, lines'[k].x1)
                      /\ lines'[k].y1 = PosY(detectors', lines'[k].start, lines'[k].y1)
                      /\ lines'[k].x2 = PosX(detectors', lines'[k].end, lines'[k].x2)
                      /\ lines'[k].y2 = PosY(detectors', lines'[k].end, lines'[k].y2)
            /\ \A a \in DOMAIN auto_arrows' :
                 (auto_arrows'[a].start = detectors[i].id
                    \/ auto_arrows'[a].end = detectors[i].id)
                   => /\ auto_arrows'[a].sx = PosX(detectors', auto_arrows'[a].start, 0)
                      /\ auto_arrows'[a].sy = PosY(detectors', auto_arrows'[a].start, 0)
                      /\ auto_arrows'[a].ex = PosX(detectors', auto_arrows'[a].end, 0)
                      /\ auto_arrows'[a].ey = PosY(detectors', auto_arrows'[a].end, 0)]_vars

(***************************************************************************)
(* The device tables of the report                                         *)
(***************************************************************************)
\* a saved project: addresses 2 and 10 on bus 1, address 1 on bus 2
ReportDocument ==
  [ plan      |-> <<>>,
    scale     |-> <<NumScale(Ratio(1, 50))>>,
    detectors |-> << [x |-> 0, y |-> 0, device_type |-> "Detector", bus_number |-> <<"1">>,
                      group |-> <<"2">>, address |-> <<"2">>, serial_number |-> <<"A">>,
                      range |-> DefaultRange],
                     [x |-> 60, y |-> 0, device_type |-> "IO", bus_number |-> <<"1">>,
                      group |-> <<"2">>, address |-> <<"1", "0">>, serial_number |-> <<"B">>],
                     [x |-> 120, y |-> 0, device_type |-> "Detector", bus_number |-> <<"2">>,
                      group |-> <<"2">>, address |-> <<"1">>, serial_number |-> <<"S">>,
                      range |-> DefaultRange] >>,
    lines     |-> <<>> ]

NextReport ==
  \/ OpenProject(ReportDocument)
  \/ \E idx \in DOMAIN detectors, f \in ExportForms : EditDevice(idx, f)
  \/ detectors # <<>> /\ RemoveDetector(detectors[Len(detectors)].id)
  \/ \E t \in ExportScaleTexts : NewProject(<<ImagePlan>>, t)
  \/ \E include_arrows \in BOOLEAN, built \in BOOLEAN : ExportToPdf(include_arrows, built)
  \/ \E yes \in BOOLEAN, built \in BOOLEAN : OnExportAnswer(yes, built)
  \/ DismissNotice

SpecReport == Init /\ [][NextReport]_vars

\* the address of the device a row was made from
RowAddress(ds, row) == ds[IndexOf(ds, row.id)].address

\* every device is in the table of its bus and in no other, once
SectionsPerBus(ds, tables) ==
  /\ \A k, l \in DOMAIN tables : tables[k].bus = tables[l].bus => k = l
  /\ \A i \in DOMAIN ds, k \in DOMAIN tables :
       Cardinality({ r \in DOMAIN tables[k].rows : tables[k].rows[r].id = ds[i].id })
         = IF tables[k].bus = BusKey(ds[i]) THEN 1 ELSE 0
  /\ \A i \in DOMAIN ds : \E k \in DOMAIN tables : tables[k].bus = BusKey(ds[i])

\* the rows of every table ascend by address, numeric addresses by value
RowsAscending(ds, tables) ==
  \A k \in DOMAIN tables :
    \A a, b \in DOMAIN tables[k].rows :
      a < b => ~AddressBefore(RowAddress(ds, tables[k].rows[b]), RowAddress(ds, tables[k].rows[a]))

\* C28: the report that is built has one section for each bus number, with
\* exactly the devices of that bus, and in each section the devices are in
\* ascending order of address, numeric addresses by value (2 before 10)
ReportOrdering ==
  [][docs_built' # docs_built
       => /\ SectionsPerBus(detectors, ReportTables(detectors))
          /\ RowsAscending(detectors, ReportTables(detectors))]_vars

\* the sections alone, whatever the order of their rows
ReportSections ==
  [][docs_built' # docs_built => SectionsPerBus(detectors, ReportTables(detectors))]_vars

(***************************************************************************)
(* Labels of auto-addressed detectors                                      *)
(***************************************************************************)
\* C29: while auto-addressing is enabled, the full address label of a newly
\* placed detector is carried by no other registered device at that moment,
\* whatever placements, removals and dialog edits came before
AutoAddressUnique ==
  [][ (Len(detectors') = Len(detectors) + 1 /\ Placed.device_type = "Detector"
         /\ auto_address_enabled)
        => \A i \in 1..Len(detectors) :
             get_full_address_label(detectors'[i]) # get_full_address_label(Placed) ]_vars

(***************************************************************************)
(* The cursor across a load                                                *)
(***************************************************************************)
\* C30: from_dict leaves the auto-address cursor (enabled flag, target bus,
\* target group, next address) as it was before the load, whatever devices
\* the document holds
LoadKeepsCursor ==
  [][ \A doc \in MalformedDocuments : OpenProject(doc) => UNCHANGED cursor_vars ]_vars

(***************************************************************************)
(* Labels of numeric addresses                                             *)
(***************************************************************************)
\* forms with numeric bus, group and address: buses "1" and "01" are the same
\* number, and so are the addresses "1" and "001"; the address 1000 is wider
\* than the three places of the format
InjectiveForms ==
  { [bus_number |-> b, group |-> g, address |-> a, serial_number |-> <<"S">>,
     range |-> DefaultRange] :
       b \in { <<"1">>, <<"0", "1">> },
       g \in { <<"1">>, <<"1", "1">> },
       a \in { <<"0">>, <<"1">>, <<"0", "0", "1">>, <<"1", "0", "0", "0">> } }

NextInjective ==
  \/ OnAddDeviceRequested(<<60 * Len(detectors), 0>>, "Detector")
  \/ detectors # <<>> /\ RemoveDetector(detectors[Len(detectors)].id)
  \/ \E idx \in DOMAIN detectors, f \in InjectiveForms : EditDevice(idx, f)

SpecInjective == Init /\ [][NextInjective]_vars

\* bus, group and address of the device all parse as integers
NumericAddress(d) == IntOk(d.bus_number) /\ IntOk(d.group) /\ IntOk(d.address)

\* the two devices have the same bus, group and address as numbers
SameNumbers(a, b) ==
  /\ IntVal(a.bus_number) = IntVal(b.bus_number)
  /\ IntVal(a.group) = IntVal(b.group)
  /\ IntVal(a.address) = IntVal(b.address)

\* C31: two devices with numeric bus, group and address have the same full
\* address label if and only if bus, group and address are numerically equal
\* pair by pair, so a duplicate-address error names only devices that share
\* bus, group and address
LabelInjective ==
  /\ \A i, j \in DOMAIN detectors :
       (NumericAddress(detectors[i]) /\ NumericAddress(detectors[j]))
         => (get_full_address_label(detectors[i]) = get_full_address_label(detectors[j])
               <=> SameNumbers(detectors[i], detectors[j]))
  /\ \A k \in DOMAIN ErrorsOfKind("duplicate_address") :
       \A i, j \in DOMAIN detectors :
         (/\ NumericAddress(detectors[i]) /\ NumericAddress(detectors[j])
          /\ get_full_address_label(detectors[i]) = ErrorsOfKind("duplicate_address")[k].key
          /\ get_full_address_label(detectors[j]) = ErrorsOfKind("duplicate_address")[k].key)
           => SameNumbers(detectors[i], detectors[j])

(***************************************************************************)
(* Colours against validation                                              *)
(***************************************************************************)
\* validate_project counts the device as missing a serial
CountedMissing(d) ==
  ErrorsOfKind("missing_serial") # <<>> /\ Strip(d.serial_number) = <<>>

\* validate_project lists the device in a duplicate-serial group
ListedDuplicate(d) ==
  \E k \in DOMAIN ErrorsOfKind("duplicate_serial") :
    ErrorsOfKind("duplicate_serial")[k].key = Strip(d.serial_number)

\* C32: in every state update_detector_colors marks a device non-unique
\* (orange) if and only if validate_project counts it as missing a serial or
\* lists it in a duplicate-serial group, serials that are blank or differ
\* only by surrounding whitespace included
ColoursAgreeWithValidation ==
  \A i \in DOMAIN detectors :
    update_detector_colors(detectors)[i].brush = "orange"
      <=> (CountedMissing(detectors[i]) \/ ListedDuplicate(detectors[i]))

(***************************************************************************)
(* Matching a target against grouping by key                               *)
(***************************************************************************)
\* start_auto_address(bus, group) takes the device as one of the target:
\* bus and group non-blank and the comparison of the scan true
BelongsToTarget(d, bus, group) ==
  /\ Strip(d.bus_number) # <<>>
  /\ Strip(d.group) # <<>>
  /\ CursorMatches(Strip(d.bus_number), Strip(d.group), bus, group)

\* update_address_arrows puts the device into the group a device with the
\* target's bus and group is put into
GroupedWithTarget(d, bus, group) == GroupKey(d) = <<FieldKey(bus), FieldKey(group)>>

\* C33: for every registry and every target (bus, group), the devices that
\* start_auto_address takes as belonging to the target are exactly the
\* devices update_address_arrows groups with a device that carries the
\* target's bus and group, also when only one of the two fields parses as an
\* integer (a device may be in a group of the arrows only with an address)
GroupMatchingConsistent ==
  \A b \in AutoBuses, g \in AutoGroups :
    \A i \in DOMAIN detectors :
      HasFullAddress(detectors[i])
        => (BelongsToTarget(detectors[i], b, g) <=> GroupedWithTarget(detectors[i], b, g))

(***************************************************************************)
(* Clicks in line mode                                                     *)
(***************************************************************************)
\* the connection from the device clicked first to the device d
ConnectionTo(d) ==
  [start |-> line_start[1].id, end |-> d.id,
   x1 |-> line_start[1].x, y1 |-> line_start[1].y, x2 |-> d.x, y2 |-> d.y]

\* C34: handle_line_click on a device with no pending start makes the device
\* the pending start and adds no connection; on a device other than the
\* pending start it adds exactly the one connection from the pending start to
\* the device and clears the pending start; on the pending start itself it
\* adds no connection and clears the pending start; no connection it adds
\* joins a device to itself
LineModeClicks ==
  [][ \A idx \in DOMAIN detectors :
        HandleLineClick(idx)
          => /\ line_start = <<>>
                  => /\ lines' = lines
                     /\ line_start' # <<>>
                     /\ line_start'[1].id = detectors[idx].id
             /\ (line_start # <<>> /\ line_start[1].id # detectors[idx].id)
                  => /\ lines' = Append(lines, ConnectionTo(detectors[idx]))
                     /\ line_start' = <<>>
             /\ (line_start # <<>> /\ line_start[1].id = detectors[idx].id)
                  => /\ lines' = lines
                     /\ line_start' = <<>>
             /\ \A k \in DOMAIN lines' :
                  k \notin DOMAIN lines => lines'[k].start # lines'[k].end ]_vars

\* the middle device of the saved project was removed, then the last device
\* was clicked and then the first: one connection from the last to the first,
\* which the project did not hold, and nothing pending
LineModeClicksWitness ==
  /\ Len(detectors) = 2
  /\ line_start = <<>>
  /\ Len(lines) = 1
  /\ lines[1].start = detectors[2].id
  /\ lines[1].end = detectors[1].id
  /\ lines[1].x1 = 80 /\ lines[1].x2 = 0

(***************************************************************************)
(* The notice after an export                                              *)
(***************************************************************************)
\* C35: the main window shows the notice that the export completed only when
\* export_to_pdf has built the report document; an export blocked by
\* validation errors, and one declined at the warning prompt, show no such
\* notice
CompletionNotice ==
  [][modal' = "export_complete" => docs_built' = docs_built + 1]_vars

(***************************************************************************)
(* The cursor in every state                                               *)
(***************************************************************************)
\* C36: in every reachable state the cursor is enabled if and only if its
\* next address is set; when it is enabled the next address is an integer of
\* at least 1; the next address of an enabled cursor goes down only in a step
\* that starts auto-addressing anew; and an enabled cursor is disabled only
\* by stop_auto_address, never by add_detector
CursorWellFormed ==
  /\ [](auto_address_enabled <=> next_address # <<>>)
  /\ [](auto_address_enabled => next_address[1] \in Int /\ next_address[1] >= 1)
  /\ [][ /\ (auto_address_enabled /\ auto_address_enabled'
               /\ next_address'[1] < next_address[1])
              => \E g \in AutoGroups : OnDeviceModeToggled(TRUE, <<"1">>, g)
         /\ (auto_address_enabled /\ ~auto_address_enabled')
              => /\ detectors' = detectors
                 /\ \E g \in AutoGroups : OnDeviceModeToggled(FALSE, <<"1">>, g)
         /\ (auto_address_enabled /\ Len(detectors') = Len(detectors) + 1
               /\ Placed.device_type = "Detector")
              => auto_address_enabled' /\ next_address'[1] = next_address[1] + 1
       ]_vars

\* two detectors were placed on bus "1", group "2" from a start at 1, which
\* took the next address to 3, and auto-addressing was started again for
\* group "A": the next address has gone down to 1
CursorWellFormedWitness ==
  /\ auto_address_enabled
  /\ auto_group_raw = << <<"A">> >>
  /\ next_address = <<1>>
  /\ Len(detectors) = 2
  /\ \A i \in 1..2 : /\ detectors[i].bus_number = <<"1">>
                     /\ detectors[i].group = <<"2">>
                     /\ detectors[i].address = IntStr(i)

=============================================================================
